---- MODULE Spec2Model ----
(***************************************************************************)
(* Model of the recursive Hermite path projector of hpp-core               *)
(* (pathProjector::RecursiveHermite, src/src/path.cc lines 352-603).       *)
(*                                                                         *)
(* Conventions                                                             *)
(*  - Real quantities are scaled to integers.  beta is kept in tenths      *)
(*    (beta10 = 10 * beta), so "len > beta * L" is "10*len > beta10*L".    *)
(*    thr = 2 * errorThreshold / M is compared by cross multiplication:    *)
(*    "len < thr" is "len * M < 2 * eps" (M > 0).                          *)
(*  - Times are integers; a whole path spans TimeUnit = 2^MaxBisect ticks  *)
(*    so that every midpoint the model can reach is an integer.            *)
(*  - Configurations are the elements of Configs; they are only compared   *)
(*    for equality.                                                        *)
(*  - Hermite lengths computed by Hermite::computeHermiteLength and the    *)
(*    result of Path::eval at a midpoint come from code outside src/ and   *)
(*    from the geometry; they are inputs of the actions.                   *)
(***************************************************************************)
EXTENDS Integers, Sequences, FiniteSets, TLC

\* ------------------------------------------------------------------ bounds
MaxCfg == 1
MaxLen == 2
MaxBisect == 2
MaxPts == 3

Configs == 0..MaxCfg
Lens == 0..MaxLen

RECURSIVE Pow2(_)
Pow2(n) == IF n = 0 THEN 1 ELSE 2 * Pow2(n - 1)

TimeUnit == Pow2(MaxBisect)

\* beta in tenths: 0.4, 0.5, 0.7, 1.0, 1.1
Betas == {4, 5, 7, 10, 11}
\* scale constant M given at construction
Ms == {1, 2}
\* errorThreshold of the config projector, in length units
Epss == {1}
SteeringKinds == {"Hermite", "Straight"}

\* hermiteLength_ value of a piece whose length is unknown
Unknown == 0 - 1
\* initial()/end() of a PathVector without pieces (paths_ is empty)
Undef == 0 - 2

\* ------------------------------------------------------------- path values
\* One record shape for every path object.
\*   kind   : dynamic type
\*   init,end : initial() / end() of a non-PathVector path
\*   t0,t1  : timeRange()
\*   hl     : Hermite::hermiteLength_ (Unknown = -1)
\*   cons   : "none"  no constraint set
\*            "noCP"  constraint set without config projector
\*            "dim0"  config projector of dimension 0
\*            "cp"    config projector of positive dimension
\*   eps    : errorThreshold of the config projector
\*   endSat : constraints->isSatisfied(end())
\*   pts    : InterpolatedPath::interpolationPoints() (configurations)
\*   sub    : pieces of a PathVector
MkPath(k, i, e, a, b, h, c, ep, s, p, sb) ==
  [kind |-> k, init |-> i, end |-> e, t0 |-> a, t1 |-> b, hl |-> h,
   cons |-> c, eps |-> ep, endSat |-> s, pts |-> p, sub |-> sb]

Null == MkPath("Null", Undef, Undef, 0, 0, Unknown, "none", 0, TRUE, <<>>, <<>>)

\* PathVector::create followed by nothing: an empty path vector
EmptyPV == MkPath("PathVector", Undef, Undef, 0, 0, Unknown, "none", 0, TRUE, <<>>, <<>>)

RECURSIVE Initial(_)
Initial(p) ==
  IF p.kind = "PathVector"
    THEN IF p.sub = <<>> THEN Undef ELSE Initial(p.sub[1])
    ELSE p.init

RECURSIVE End(_)
End(p) ==
  IF p.kind = "PathVector"
    THEN IF p.sub = <<>> THEN Undef ELSE End(p.sub[Len(p.sub)])
    ELSE p.end

RECURSIVE TimeLength(_)
\* Path::length(): timeRange().second - timeRange().first; a PathVector's
\* time range is the sum of its pieces' lengths
TimeLength(p) ==
  IF p.kind = "PathVector"
    THEN IF p.sub = <<>> THEN 0
         ELSE TimeLength(p.sub[1]) + TimeLength([p EXCEPT !.sub = Tail(p.sub)])
    ELSE p.t1 - p.t0

\* PathVector::appendPath
AppendPath(pv, p) == [pv EXCEPT !.sub = Append(pv.sub, p)]

\* PathVector::concatenate: appends every piece of the other vector
Concatenate(pv, other) == [pv EXCEPT !.sub = pv.sub \o other.sub]

NumberPaths(pv) == Len(pv.sub)


\* -------------------------------------------------------------- Hermite
\* path::Hermite constructed through steer_with_timeRange /
\* Hermite::create_with_timeRange: init_, end_ and the time range are the
\* arguments, hermiteLength_ starts at -1; the piece carries (a copy of)
\* the steering method's constraints.
HermiteWithTimeRange(q1, q2, a, b, ep) ==
  MkPath("Hermite", q1, q2, a, b, Unknown, "cp", ep, TRUE, <<>>, <<>>)

\* variant: the piece is steered to its own start
SteerHermiteToStart(q1, q2, ep) == HermiteWithTimeRange(q1, q1, 0, TimeUnit, ep)

\* steer(q1, q2): the Hermite steering method without a time range; the
\* piece spans one whole time unit.
SteerHermite(q1, q2, ep) == HermiteWithTimeRange(q1, q2, 0, TimeUnit, ep)

\* Hermite::v0(speed) and Hermite::v1(speed): the cached length is dropped
SetVelocity(p) == [p EXCEPT !.hl = Unknown]

\* Hermite::computeHermiteLength: l is the length the control points give
ComputeHermiteLength(p, l) == [p EXCEPT !.hl = l]

\* --------------------------------------------------------------- inputs
PtsSeqs(i, e) ==
  { <<i>> \o mid \o <<e>> :
      mid \in UNION { [1..n -> Configs] : n \in 0..(MaxPts - 2) } }

ConsVariants ==
  { <<"none", 0, TRUE>> }
    \cup { <<"noCP", 0, s>> : s \in BOOLEAN }
    \cup { <<c, ep, s>> : c \in {"dim0", "cp"}, ep \in Epss, s \in BOOLEAN }

\* Paths that are not path vectors.  Configuration names only matter up to
\* equality, so a path starting at configuration i is built for a given i.
SinglePathsFrom(i) ==
  { MkPath(k, i, e, 0, TimeUnit, Unknown, cv[1], cv[2], cv[3], <<>>, <<>>) :
      k \in {"Hermite", "Straight"}, e \in Configs, cv \in ConsVariants }
  \cup
  UNION { { MkPath("Interpolated", i, e, 0, (Len(pts) - 1) * TimeUnit, Unknown,
                   cv[1], cv[2], cv[3], pts, <<>>) :
              pts \in PtsSeqs(i, e), cv \in ConsVariants } : e \in Configs }

\* Pieces a path vector is made of
PiecesFrom(i) == { p \in SinglePathsFrom(i) : p.kind = "Straight" }

\* Continuous path vectors of one or two pieces
PathVectorsFrom(i) ==
  { AppendPath(EmptyPV, p) : p \in PiecesFrom(i) }
  \cup
  UNION { { AppendPath(AppendPath(EmptyPV, p), q) : q \in PiecesFrom(p.end) } :
            p \in PiecesFrom(i) }

\* ---------------------------------------------------------------- state
VARIABLES
  pc,       \* control position
  rh,       \* the RecursiveHermite object: M_, beta_, interpolationTimes_
  args,     \* arguments of the constructor call
  err,      \* exception thrown by the constructor
  entry,    \* operation called by the client: "apply" or "project"
  input,    \* path given by the client
  level,    \* 0: call on input, 1: call on a piece of a path vector
  cur,      \* path argument of the call being executed
  out,      \* out[0]: proj of the client's call, out[1]: part
  succ,     \* success of the impl_apply / project call that returns
  pv,       \* locals of impl_apply on a path vector: i, res
  pj,       \* locals of project: ps, i, res, r, success
  stack,    \* frames of recurse, innermost last
  ret,      \* value returned by the last recurse call
  smSet,    \* steeringMethod_->constraints(...) was called
  steers,   \* calls of steer / steer_with_timeRange
  nBisect,  \* bisections done
  hist,     \* observations about the calls made (not program state)
  th,       \* threshold of project, for each copy of the projector
  own,      \* paths, constraint sets and who refers to them
  tpv,      \* a time parameterization under construction
  pa,       \* a path and the result of an operation on it
  hm,       \* a Hermite path: its boundary velocities and cached length
  cpv,      \* a config projector: its constraints and right-hand sides
  rc        \* a piece and the two children recurse builds from it

\* state of the objects other than the projector of src/src/path.cc
others == <<th, own, tpv, pa, hm, cpv, rc>>

vars == <<pc, rh, args, err, entry, input, level, cur, out, succ, pv, pj,
          stack, ret, smSet, steers, nBisect, hist, th, own, tpv, pa, hm,
          cpv, rc>>

\* state of the projector of src/src/path.cc
projector == <<pc, rh, args, err, entry, input, level, cur, out, succ, pv,
               pj, stack, ret, smSet, steers, nBisect, hist>>

NoRH == [beta10 |-> 0, M |-> 0, times |-> <<>>, ctor |-> 0]
NoArgs == [ctor |-> 0, beta10 |-> 0, M |-> 0, sm |-> "none", times |-> <<>>]
NoPV == [i |-> 0, res |-> Null]
NoPJ == [ps |-> <<>>, i |-> 0, res |-> Null, r |-> Null, success |-> TRUE]
\* recursed: calls of recurse; evalFailed: a midpoint evaluation failed;
\* accepted: the pieces the current call of project accepted, in order
NoHist == [recursed |-> 0, evalFailed |-> FALSE, accepted |-> <<>>]

NoThr == [pc |-> "new"]
NoOwn == [pc |-> "new"]
NoTpv == [pc |-> "new"]
NoPa == [pc |-> "new"]

Init ==
  /\ pc = "new"
  /\ rh = NoRH
  /\ args = NoArgs
  /\ err = "none"
  /\ entry = "none"
  /\ input = Null
  /\ level = 0
  /\ cur = Null
  /\ out = <<Null, Null>>
  /\ succ = "none"
  /\ pv = NoPV
  /\ pj = NoPJ
  /\ stack = <<>>
  /\ ret = "none"
  /\ smSet = FALSE
  /\ steers = 0
  /\ nBisect = 0
  /\ hist = NoHist
  /\ th = NoThr
  /\ own = NoOwn
  /\ tpv = NoTpv
  /\ pa = NoPa
  /\ hm = [pc |-> "new"]
  /\ cpv = [pc |-> "new"]
  /\ rc = [pc |-> "new"]

\* -------------------------------------------------------- construction
\* variant: the lower bound 0.5 itself is refused
BetaOutOfRangeStrict(b10) == b10 <= 5 \/ 10 < b10

\* "beta_ < 0.5 || 1 < beta_"
BetaOutOfRange(b10) == b10 < 5 \/ 10 < b10

\* variant: the kind of the steering method is not looked at
NotHermiteUnchecked(sm) == FALSE

\* !HPP_DYNAMIC_PTR_CAST(steeringMethod::Hermite, steeringMethod)
NotHermite(sm) == sm # "Hermite"

\* interpolation times <<0, U, 2U, ...>> of a given size
TimesOfSize(n) == [k \in 1..n |-> (k - 1) * TimeUnit]

\* Body shared by the two constructors: the object exists only if neither
\* check throws.
Constructed(a) ==
  /\ pc = "new"
  /\ args' = a
  /\ IF BetaOutOfRange(a.beta10)
       THEN /\ err' = "invalid_argument: beta"
            /\ pc' = "threw"
            /\ rh' = NoRH
       ELSE IF NotHermite(a.sm)
         THEN /\ err' = "invalid_argument: steering method"
              /\ pc' = "threw"
              /\ rh' = NoRH
         ELSE /\ err' = "none"
              /\ pc' = "idle"
              /\ rh' = [beta10 |-> a.beta10, M |-> a.M, times |-> a.times,
                        ctor |-> a.ctor]
  /\ UNCHANGED <<entry, input, level, cur, out, succ, pv, pj, stack, ret,
                 smSet, steers, nBisect, hist>>
  /\ UNCHANGED others

\* RecursiveHermite(distance, steeringMethod, M, beta)
Construct ==
  \E b \in Betas, m \in Ms, sm \in SteeringKinds :
    Constructed([ctor |-> 1, beta10 |-> b, M |-> m, sm |-> sm,
                 times |-> <<>>])

\* RecursiveHermite(distance, steeringMethod, M, beta, interpolationTimes)
ConstructWithTimes ==
  \E b \in Betas, m \in Ms, sm \in SteeringKinds, n \in 2..(MaxPts - 1) :
    Constructed([ctor |-> 2, beta10 |-> b, M |-> m, sm |-> sm,
                 times |-> TimesOfSize(n)])


\* ------------------------------------------------------------ the calls
\* Values a read outside interpolationTimes_ can give
Garbage == {0, TimeUnit}

\* variant: only the absence of a constraint set is tested
NoConstraintSet(p) == p.cons = "none"

\* !path->constraints() || !path->constraints()->configProjector()
NoProjector(p) == p.cons \in {"none", "noCP"}

\* The client calls apply(path, proj) with a null proj.
CallApply ==
  /\ pc = "idle"
  /\ \E p \in SinglePathsFrom(0) \cup PathVectorsFrom(0) :
       /\ input' = p
       /\ cur' = p
  /\ entry' = "apply"
  /\ level' = 0
  /\ pc' = "apply"
  /\ UNCHANGED <<rh, args, err, out, succ, pv, pj, stack, ret, smSet, steers,
                 nBisect, hist>>
  /\ UNCHANGED others

\* project(path, proj) called on its own with a null proj, on the paths
\* that impl_apply does not hand to project.
CallProject ==
  /\ pc = "idle"
  /\ \E p \in { q \in SinglePathsFrom(0) : NoProjector(q) } :
       /\ input' = p
       /\ cur' = p
  /\ entry' = "project"
  /\ level' = 0
  /\ pc' = "project"
  /\ UNCHANGED <<rh, args, err, out, succ, pv, pj, stack, ret, smSet, steers,
                 nBisect, hist>>
  /\ UNCHANGED others

SetOut(l, p) == [out EXCEPT ![l + 1] = p]
Proj(l) == out[l + 1]

\* impl_apply, from its entry to the first call it makes (or to its
\* final assertions when it makes none).
ImplApply ==
  /\ pc = "apply"
  /\ IF cur.kind = "PathVector"
       THEN \* res = PathVector::create; PathPtr_t part; success = true
            /\ pv' = [i |-> 1, res |-> EmptyPV]
            /\ IF NumberPaths(cur) = 0
                 THEN /\ out' = SetOut(0, EmptyPV)
                      /\ succ' = "T"
                      /\ pc' = "applyExit"
                      /\ UNCHANGED <<level, cur>>
                 ELSE /\ out' = SetOut(1, Null)
                      /\ succ' = "none"
                      /\ level' = 1
                      /\ cur' = cur.sub[1]
                      /\ pc' = "apply"
       ELSE /\ IF NoProjector(cur)
                 THEN /\ out' = SetOut(level, cur)
                      /\ succ' = "T"
                      /\ pc' = "applyExit"
                 ELSE /\ pc' = "project"
                      /\ UNCHANGED <<out, succ>>
            /\ UNCHANGED <<pv, level, cur>>
  /\ UNCHANGED <<rh, args, err, entry, input, pj, stack, ret, smSet, steers,
                 nBisect, hist>>
  /\ UNCHANGED others

\* The three assertions that end impl_apply
ExitAssertions(path, proj, success) ==
  /\ proj # Null
  /\ Initial(proj) # Undef
  /\ Initial(proj) = Initial(path)
  /\ (success = "T" => End(proj) = End(path))

\* End of impl_apply: the assertions, then the return to the caller.  A
\* violated assertion aborts the program in a build with assertions and
\* is skipped in a build without.
ImplApplyExit ==
  /\ pc = "applyExit"
  /\ \/ /\ ~ExitAssertions(cur, Proj(level), succ)
        /\ pc' = "aborted"
        /\ UNCHANGED <<level, cur>>
     \/ IF level = 1
          THEN /\ pc' = "pvStep"
               /\ level' = 0
               /\ cur' = input
          ELSE /\ pc' = "done"
               /\ UNCHANGED <<level, cur>>
  /\ UNCHANGED <<rh, args, err, entry, input, out, succ, pv, pj, stack, ret,
                 smSet, steers, nBisect, hist>>
  /\ UNCHANGED others

\* variant: the test the comment above it describes ("or it's not the
\* first one")
AppendPartialAsCommented(part, rank) ==
  part # Null /\ (TimeLength(part) > 0 \/ rank # 0)

\* "part && (part->length() > 0 || i == 0)"; rank is the 0-based index i
AppendPartial(part, rank) == part # Null /\ (TimeLength(part) > 0 \/ rank = 0)

\* impl_apply on a path vector, from the return of apply on piece i to
\* the next call of apply or to the final assertions.
PathVectorStep ==
  /\ pc = "pvStep"
  /\ LET part == Proj(1)
         rank == pv.i - 1
     IN IF succ = "F"
          THEN LET res == IF AppendPartial(part, rank)
                            THEN AppendPath(pv.res, part) ELSE pv.res
               IN /\ pv' = [pv EXCEPT !.res = res]
                  /\ out' = SetOut(0, res)
                  /\ succ' = "F"
                  /\ pc' = "applyExit"
                  /\ UNCHANGED <<level, cur>>
          ELSE LET res == AppendPath(pv.res, part)
               IN IF pv.i < NumberPaths(input)
                    THEN /\ pv' = [i |-> pv.i + 1, res |-> res]
                         /\ level' = 1
                         /\ cur' = input.sub[pv.i + 1]
                         /\ succ' = "none"
                         /\ pc' = "apply"
                         /\ UNCHANGED out
                    ELSE /\ pv' = [pv EXCEPT !.res = res]
                         /\ out' = SetOut(0, res)
                         /\ succ' = "T"
                         /\ pc' = "applyExit"
                         /\ UNCHANGED <<level, cur>>
  /\ UNCHANGED <<rh, args, err, entry, input, pj, stack, ret, smSet, steers,
                 nBisect, hist>>
  /\ UNCHANGED others

\* where project returns to
AfterProject == IF entry = "project" THEN "done" ELSE "applyExit"

\* variant: a length equal to thr is accepted as well
BelowOrAtThr(len, ep, m) == len * m <= 2 * ep

\* "p->hermiteLength() < thr" with thr = 2 * cp->errorThreshold() / M_
BelowThr(len, ep, m) == len * m < 2 * ep

\* variant: the end configuration is not tested
EndFailsUnchecked(p) == FALSE

\* !constraints->isSatisfied(q2)
EndFails(p) == ~p.endSat

\* variant: a config projector of dimension 0 is not told from one of
\* positive dimension
NoDimensionNoCP(p) == p.cons = "noCP"

\* !cp || cp->dimension() == 0
NoDimension(p) == p.cons \in {"noCP", "dim0"}

\* Candidate pieces of an interpolated path: piece k joins point k to
\* point k+1 over (tm[k], tm[k+1]).
InterpolatedPieces(pts, tm, ep) ==
  [k \in 1..(Len(pts) - 1) |->
     HermiteWithTimeRange(pts[k], pts[k + 1], tm[k], tm[k + 1], ep)]

\* interpolationTimes_ as the loop reads it for n points: entries beyond
\* its size read g
TimesRead(tm, n, g) == [k \in 1..n |-> IF k <= Len(tm) THEN tm[k] ELSE g]

\* project, from its entry to the loop over the candidate pieces.
Project ==
  /\ pc = "project"
  /\ IF cur.cons = "none"
       THEN /\ out' = SetOut(level, cur)
            /\ succ' = "T"
            /\ pc' = AfterProject
            /\ UNCHANGED <<pj, smSet, steers, cur, input>>
       ELSE IF EndFails(cur)
         THEN /\ succ' = "F"
              /\ pc' = AfterProject
              /\ UNCHANGED <<out, pj, smSet, steers, cur, input>>
         ELSE IF NoDimension(cur)
           THEN /\ out' = SetOut(level, cur)
                /\ succ' = "T"
                /\ pc' = AfterProject
                /\ UNCHANGED <<pj, smSet, steers, cur, input>>
           ELSE
             /\ smSet' = TRUE
             /\ UNCHANGED <<out, succ, cur, input>>
             /\ IF cur.kind = "Hermite"
                  THEN /\ pj' = [ps |-> <<cur>>, i |-> 1, res |-> EmptyPV,
                                 r |-> Null, success |-> TRUE]
                       /\ pc' = "loop"
                       /\ UNCHANGED steers
                  ELSE IF cur.kind = "Interpolated"
                    THEN LET n == Len(cur.pts)
                         IN IF n <= Len(rh.times)
                              THEN /\ pj' = [ps |-> InterpolatedPieces(
                                                cur.pts, rh.times, cur.eps),
                                             i |-> 1, res |-> EmptyPV,
                                             r |-> Null, success |-> TRUE]
                                   /\ steers' = steers + n - 1
                                   /\ pc' = "loop"
                              ELSE \* read outside interpolationTimes_
                                   \/ /\ pc' = "aborted"
                                      /\ UNCHANGED <<pj, steers>>
                                   \/ \E g \in Garbage :
                                        /\ pj' = [ps |-> InterpolatedPieces(
                                                     cur.pts,
                                                     TimesRead(rh.times, n, g),
                                                     cur.eps),
                                                  i |-> 1, res |-> EmptyPV,
                                                  r |-> Null,
                                                  success |-> TRUE]
                                        /\ steers' = steers + n - 1
                                        /\ pc' = "loop"
                    ELSE /\ pj' = [ps |-> <<SteerHermite(cur.init, cur.end,
                                                         cur.eps)>>,
                                   i |-> 1, res |-> EmptyPV, r |-> Null,
                                   success |-> TRUE]
                         /\ steers' = steers + 1
                         /\ pc' = "loop"
  /\ hist' = [hist EXCEPT !.accepted = <<>>]
  /\ UNCHANGED <<rh, args, err, entry, level, pv, stack, ret, nBisect>>
  /\ UNCHANGED others

\* The frame of a call of recurse on p; base is the number of paths proj
\* holds when the call is made.
NewFrame(p, base) ==
  [path |-> p, pc |-> "entry", left |-> Null, right |-> Null, stop |-> FALSE,
   base |-> base]

\* One iteration of the loop of project over ps, up to the call of
\* recurse; l is the length computeHermiteLength finds for ps[i].  When
\* the path given to project is a Hermite path, ps[i] is that very object
\* and its cached length changes with it (input keeps the path as the
\* client gave it).
ProjectLoop ==
  /\ pc = "loop"
  /\ pj.i <= Len(pj.ps)
  /\ \E l \in Lens :
       LET p == ComputeHermiteLength(pj.ps[pj.i], l)
       IN /\ IF BelowThr(p.hl, cur.eps, rh.M)
               THEN /\ pj' = [pj EXCEPT !.res = AppendPath(pj.res, p),
                                        !.ps[pj.i] = p,
                                        !.i = pj.i + 1]
                    /\ pc' = IF pj.i + 1 <= Len(pj.ps)
                               THEN "loop" ELSE "finish"
                    /\ hist' = [hist EXCEPT
                                  !.accepted = Append(hist.accepted, p)]
                    /\ UNCHANGED stack
               ELSE /\ pj' = [pj EXCEPT !.r = EmptyPV, !.ps[pj.i] = p]
                    /\ stack' = <<NewFrame(p, 0)>>
                    /\ hist' = [hist EXCEPT !.recursed = hist.recursed + 1]
                    /\ pc' = "recurse"
          /\ cur' = IF cur.kind = "Hermite" THEN p ELSE cur
  /\ ret' = "none"
  /\ UNCHANGED <<rh, args, err, entry, input, level, out, succ, pv,
                 smSet, steers, nBisect>>
  /\ UNCHANGED others

\* project after recurse returned: concatenate, then break or continue.
ProjectAfterRecurse ==
  /\ pc = "afterRecurse"
  /\ LET res == Concatenate(pj.res, pj.r)
         ok == (ret = "T")
     IN /\ pj' = [pj EXCEPT !.res = res, !.success = ok,
                            !.i = IF ok THEN pj.i + 1 ELSE pj.i]
        /\ pc' = IF ok /\ pj.i + 1 <= Len(pj.ps) THEN "loop" ELSE "finish"
  /\ ret' = "none"
  /\ UNCHANGED <<rh, args, err, entry, input, level, cur, out, succ, pv,
                 stack, smSet, steers, nBisect, hist>>
  /\ UNCHANGED others

\* Path::extract over (t, t) of a path without time parameterization: a
\* path of zero length whose two ends are the configuration at t.
ExtractAtStart(p) ==
  MkPath("Extracted", Initial(p), Initial(p), p.t0, p.t0, Unknown, p.cons,
         p.eps, p.endSat, <<>>, <<>>)

\* variant: a single piece is returned inside the sequence
PartialResultWrapped(path, res) ==
  IF NumberPaths(res) = 0 THEN ExtractAtStart(path) ELSE res

\* The result project leaves in proj when it fails after the loop
PartialResult(path, res) ==
  IF NumberPaths(res) = 0 THEN ExtractAtStart(path)
  ELSE IF NumberPaths(res) = 1 THEN res.sub[1]
  ELSE res

\* project after the loop: the result and the return.
ProjectFinish ==
  /\ pc = "finish"
  /\ IF pj.success
       THEN /\ out' = SetOut(level, pj.res)
            /\ succ' = "T"
       ELSE /\ out' = SetOut(level, PartialResult(cur, pj.res))
            /\ succ' = "F"
  /\ pc' = AfterProject
  /\ UNCHANGED <<rh, args, err, entry, input, level, cur, pv, pj, stack, ret,
                 smSet, steers, nBisect, hist>>
  /\ UNCHANGED others


\* ------------------------------------------------------------- recurse
Top == stack[Len(stack)]
Caller == SubSeq(stack, 1, Len(stack) - 1)

\* return v from the innermost recurse call
Return(v) ==
  /\ stack' = Caller
  /\ ret' = v
  /\ pc' = IF Len(stack) = 1 THEN "afterRecurse" ELSE "recurse"

\* variant: a child as long as stopThr stops the subdivision as well
ReachesStop(childLen, parentLen, b10) == 10 * childLen >= b10 * parentLen

\* variant: no child is ever too long
ExceedsNever(childLen, parentLen, b10) == FALSE

\* variant: the children are compared with the length of the piece
ExceedsParent(childLen, parentLen, b10) == childLen > parentLen

\* "child->hermiteLength() > stopThr" with stopThr = beta_ * parent length
ExceedsStop(childLen, parentLen, b10) == 10 * childLen > b10 * parentLen

\* path->timeRange().first + path->length() / 2
MidTime(p) == p.t0 + (p.t1 - p.t0) \div 2

\* variant: the left child is given the second half of the time range
LeftChildLate(p, q1, l) ==
  ComputeHermiteLength(
    SetVelocity(SetVelocity(
      HermiteWithTimeRange(p.init, q1, MidTime(p), p.t1, p.eps))), l)

\* variant: the length of the left child is computed before v1 is set
LeftChildStale(p, q1, l) ==
  SetVelocity(
    ComputeHermiteLength(
      SetVelocity(
        HermiteWithTimeRange(p.init, q1, p.t0, MidTime(p), p.eps)), l))

\* left child: steer_with_timeRange(q0, q1, (t0, t)), v0, v1, then
\* computeHermiteLength
LeftChild(p, q1, l) ==
  ComputeHermiteLength(
    SetVelocity(SetVelocity(
      HermiteWithTimeRange(p.init, q1, p.t0, MidTime(p), p.eps))), l)

\* variant: the right child starts at the parent's start, not at q1
RightChildFromStart(p, q1, l) ==
  ComputeHermiteLength(
    SetVelocity(SetVelocity(
      HermiteWithTimeRange(p.init, p.end, MidTime(p), p.t1, p.eps))), l)

\* right child: steer_with_timeRange(q1, q2, (t, t1)), v0, v1, then
\* computeHermiteLength
RightChild(p, q1, l) ==
  ComputeHermiteLength(
    SetVelocity(SetVelocity(
      HermiteWithTimeRange(q1, p.end, MidTime(p), p.t1, p.eps))), l)

\* recurse, from its entry to the construction of the two children (or to
\* its return when there is none).  ok and q1 are the result of
\* path->eval(t, success); ll and lr are the Hermite lengths of the two
\* children.
RecurseEnter ==
  /\ pc = "recurse"
  /\ Top.pc = "entry"
  /\ LET p == Top.path
     IN IF BelowThr(p.hl, cur.eps, rh.M)
          THEN /\ pj' = [pj EXCEPT !.r = AppendPath(pj.r, p)]
               /\ hist' = [hist EXCEPT !.accepted = Append(hist.accepted, p)]
               /\ Return("T")
               /\ UNCHANGED <<steers, nBisect>>
          ELSE \/ \* the midpoint could not be projected
                  /\ hist' = [hist EXCEPT !.evalFailed = TRUE]
                  /\ Return("F")
                  /\ UNCHANGED <<pj, steers, nBisect>>
               \/ /\ nBisect < MaxBisect
                  /\ \E q1 \in Configs, ll \in Lens, lr \in Lens :
                       /\ stack' = Caller \o
                            <<[Top EXCEPT !.pc = "check",
                                          !.left = LeftChild(p, q1, ll),
                                          !.right = RightChild(p, q1, lr)]>>
                  /\ steers' = steers + 2
                  /\ nBisect' = nBisect + 1
                  /\ UNCHANGED <<pj, hist, ret, pc>>
  /\ UNCHANGED <<rh, args, err, entry, input, level, cur, out, succ, pv,
                 smSet>>
  /\ UNCHANGED others

\* recurse, from the contraction check to the call on the left child:
\* stopThr, lStop, rStop, stop and "lStop || !recurse(left, ...)" up to
\* the call.
RecurseCheck ==
  /\ pc = "recurse"
  /\ Top.pc = "check"
  /\ LET lStop == ExceedsStop(Top.left.hl, Top.path.hl, rh.beta10)
         rStop == ExceedsStop(Top.right.hl, Top.path.hl, rh.beta10)
     IN IF lStop
          THEN /\ Return("F")
               /\ UNCHANGED hist
          ELSE /\ stack' = Caller \o
                    <<[Top EXCEPT !.pc = "left", !.stop = rStop \/ lStop],
                      NewFrame(Top.left, NumberPaths(pj.r))>>
               /\ ret' = "none"
               /\ pc' = "recurse"
               /\ hist' = [hist EXCEPT !.recursed = hist.recursed + 1]
  /\ UNCHANGED <<rh, args, err, entry, input, level, cur, out, succ, pv, pj,
                 smSet, steers, nBisect>>
  /\ UNCHANGED others

\* variant: the result of the recursion into the left child is ignored
StopOnly(r, stop) == stop

\* "!recurse(left, ...)" gave r: return false on that, or on "stop"
LeftFailedOrStop(r, stop) == r = "F" \/ stop

\* "lStop || !recurse(left, ...)" once the call returned, then
\* "stop || !recurse(right, ...)" up to the call.
RecurseAfterLeft ==
  /\ pc = "recurse"
  /\ Top.pc = "left"
  /\ ret # "none"
  /\ IF LeftFailedOrStop(ret, Top.stop)
       THEN /\ Return("F")
            /\ UNCHANGED hist
       ELSE /\ stack' = Caller \o <<[Top EXCEPT !.pc = "right"],
                                    NewFrame(Top.right, NumberPaths(pj.r))>>
            /\ ret' = "none"
            /\ pc' = "recurse"
            /\ hist' = [hist EXCEPT !.recursed = hist.recursed + 1]
  /\ UNCHANGED <<rh, args, err, entry, input, level, cur, out, succ, pv, pj,
                 smSet, steers, nBisect>>
  /\ UNCHANGED others

\* "stop || !recurse(right, ...)" once the call returned, and the return.
RecurseAfterRight ==
  /\ pc = "recurse"
  /\ Top.pc = "right"
  /\ ret # "none"
  /\ Return(IF ret = "F" THEN "F" ELSE "T")
  /\ UNCHANGED <<rh, args, err, entry, input, level, cur, out, succ, pv, pj,
                 smSet, steers, nBisect, hist>>
  /\ UNCHANGED others

\* ------------------------------------------------------- specification
Next ==
  \/ Construct
  \/ ConstructWithTimes
  \/ CallApply
  \/ CallProject
  \/ ImplApply
  \/ ImplApplyExit
  \/ PathVectorStep
  \/ Project
  \/ ProjectLoop
  \/ ProjectAfterRecurse
  \/ ProjectFinish
  \/ RecurseEnter
  \/ RecurseCheck
  \/ RecurseAfterLeft
  \/ RecurseAfterRight

Spec == Init /\ [][Next]_vars


\* ------------------------------------------- the threshold of project
\* The three definitions of RecursiveHermite::project in the sources
Copies == {"path.cc", "recursive-hermite.cc/1", "recursive-hermite.cc/2"}

\* Hermite lengths on both sides of every threshold
ThrLens == 0..(2 * MaxLen)
ThrEpss == 1..2

\* what 2 * cp->errorThreshold() is divided by: M_, but the literal 2 in
\* the second definition of recursive-hermite.cc
ThrDivisor(copy, m) == IF copy = "recursive-hermite.cc/2" THEN 2 ELSE m

\* "const value_type thr = 2 * cp->errorThreshold() / ...", kept as the
\* fraction <<numerator, denominator>>
Threshold(copy, ep, m) == <<2 * ep, ThrDivisor(copy, m)>>

\* "hermiteLength() < thr" for a threshold given as a fraction
LengthBelow(len, t) == len * t[2] < t[1]

\* RecursiveHermite(distance, steeringMethod, M, beta): M_(M)
ThrConstruct ==
  /\ th.pc = "new"
  /\ \E c \in Copies, m \in Ms :
       th' = [pc |-> "idle", copy |-> c, M |-> m, eps |-> 0, thr |-> <<0, 1>>,
              len |-> 0, kept |-> FALSE, acceptThr |-> <<0, 1>>,
              leaf |-> FALSE]
  /\ UNCHANGED <<projector, hm, cpv, rc, own, tpv, pa>>

\* project up to the loop over the candidate pieces: thr is computed from
\* the error threshold of the path's config projector
ThrProject ==
  /\ th.pc = "idle"
  /\ \E ep \in ThrEpss :
       th' = [th EXCEPT !.pc = "loop", !.eps = ep,
                        !.thr = Threshold(th.copy, ep, th.M),
                        !.len = 0, !.kept = FALSE, !.acceptThr = <<0, 1>>,
                        !.leaf = FALSE]
  /\ UNCHANGED <<projector, hm, cpv, rc, own, tpv, pa>>

\* one iteration of the loop on a candidate piece of Hermite length l: the
\* piece is kept as it is, or recurse is called with thr
ThrLoop ==
  /\ th.pc = "loop"
  /\ \E l \in ThrLens :
       IF LengthBelow(l, th.thr)
         THEN th' = [th EXCEPT !.pc = "idle", !.len = l, !.kept = TRUE]
         ELSE th' = [th EXCEPT !.pc = "recurse", !.len = l, !.kept = FALSE,
                               !.acceptThr = th.thr]
  /\ UNCHANGED <<projector, hm, cpv, rc, own, tpv, pa>>

\* recurse on a piece of Hermite length l (the candidate or one of its
\* descendants): "path->hermiteLength() < acceptThr"
ThrRecurse ==
  /\ th.pc = "recurse"
  /\ \E l \in 0..th.len :
       th' = [th EXCEPT !.pc = "idle", !.len = l,
                        !.leaf = LengthBelow(l, th.acceptThr)]
  /\ UNCHANGED <<projector, hm, cpv, rc, own, tpv, pa>>

NextThr ==
  \/ ThrConstruct
  \/ ThrProject
  \/ ThrLoop
  \/ ThrRecurse

SpecThr == Init /\ [][NextThr]_vars


\* ------------------------------------- paths and their constraint sets
\* Constraint sets are objects: own.rhs[id] is the right-hand side of
\* object id, own.paths[k].cons the object path k refers to (0: none),
\* own.refs the objects a caller holds a reference to.
MaxObj == 3
Rhs == 0..1

\* ConstraintSet::copy: a new object with the same right-hand side
CopySet(id) == [own EXCEPT !.rhs = Append(own.rhs, own.rhs[id])]

\* the object the copy made
NewId == Len(own.rhs) + 1

\* the first operation: a caller creates a constraint set
OwnStart ==
  /\ own.pc = "new"
  /\ own' = [pc |-> "run", rhs |-> <<0>>, paths |-> <<>>, refs |-> {1},
             built |-> 0]
  /\ UNCHANGED <<projector, hm, cpv, rc, th, tpv, pa>>

\* Path(interval, outputSize, outputDerivativeSize, constraints): the
\* constraints given are copied
PathWithConstraints ==
  /\ own.pc = "run"
  /\ Len(own.paths) < MaxObj
  /\ Len(own.rhs) < MaxObj + 1
  /\ \E c \in own.refs :
       own' = [CopySet(c) EXCEPT !.paths = Append(own.paths, [cons |-> NewId]),
                                 !.built = Len(own.paths) + 1]
  /\ UNCHANGED <<projector, hm, cpv, rc, th, tpv, pa>>

\* Path(interval, outputSize, outputDerivativeSize), and the constructor
\* above with null constraints
PathWithoutConstraints ==
  /\ own.pc = "run"
  /\ Len(own.paths) < MaxObj
  /\ own' = [own EXCEPT !.paths = Append(own.paths, [cons |-> 0]),
                        !.built = Len(own.paths) + 1]
  /\ UNCHANGED <<projector, hm, cpv, rc, th, tpv, pa>>

\* Path(const Path& path)
PathCopy ==
  /\ own.pc = "run"
  /\ Len(own.paths) < MaxObj
  /\ \E k \in 1..Len(own.paths) :
       IF own.paths[k].cons = 0
         THEN own' = [own EXCEPT !.paths = Append(own.paths, [cons |-> 0]),
                                 !.built = Len(own.paths) + 1]
         ELSE /\ Len(own.rhs) < MaxObj + 1
              /\ own' = [CopySet(own.paths[k].cons) EXCEPT
                           !.paths = Append(own.paths, [cons |-> NewId]),
                           !.built = Len(own.paths) + 1]
  /\ UNCHANGED <<projector, hm, cpv, rc, th, tpv, pa>>

\* Path(const Path& path, const ConstraintSetPtr_t& constraints):
\* "constraints_(constraints)"
CopyWithConstraints(c) ==
  [own EXCEPT !.paths = Append(own.paths, [cons |-> c]),
              !.built = Len(own.paths) + 1]

\* Path(path, constraints) on a path without constraints ("assert
\* (!path.constraints_)"), with the constraints a caller holds
PathCopyWithConstraints ==
  /\ own.pc = "run"
  /\ Len(own.paths) < MaxObj
  /\ \E k \in 1..Len(own.paths), c \in own.refs :
       /\ own.paths[k].cons = 0
       /\ own' = CopyWithConstraints(c)
  /\ UNCHANGED <<projector, hm, cpv, rc, th, tpv, pa>>

\* Path::applyConstraints on path k: rightHandSideAt(param) on the
\* constraint set of the path
ApplyConstraints ==
  /\ own.pc = "run"
  /\ \E k \in 1..Len(own.paths), v \in Rhs :
       /\ own.paths[k].cons # 0
       /\ own' = [own EXCEPT !.rhs[own.paths[k].cons] = v, !.built = 0]
  /\ UNCHANGED <<projector, hm, cpv, rc, th, tpv, pa>>

\* a caller changes the right-hand side of a constraint set it refers to
CallerRightHandSide ==
  /\ own.pc = "run"
  /\ \E c \in own.refs, v \in Rhs :
       own' = [own EXCEPT !.rhs[c] = v, !.built = 0]
  /\ UNCHANGED <<projector, hm, cpv, rc, th, tpv, pa>>

\* RecursiveHermite::project on path k: "constraints = path->constraints()"
\* then "steeringMethod_->constraints(constraints)": the projector and its
\* steering method refer to the constraint set of the path
ProjectConstraints ==
  /\ own.pc = "run"
  /\ \E k \in 1..Len(own.paths) :
       /\ own.paths[k].cons # 0
       /\ own.paths[k].cons \notin own.refs
       /\ own' = [own EXCEPT !.refs = own.refs \cup {own.paths[k].cons},
                             !.built = 0]
  /\ UNCHANGED <<projector, hm, cpv, rc, th, tpv, pa>>

NextOwn ==
  \/ OwnStart
  \/ PathWithConstraints
  \/ PathWithoutConstraints
  \/ PathCopy
  \/ PathCopyWithConstraints
  \/ ApplyConstraints
  \/ CallerRightHandSide
  \/ ProjectConstraints

SpecOwn == Init /\ [][NextOwn]_vars


\* ------------------------------------------- time parameterizations
\* A time parameterization is a polynomial c[1] + c[2] t + c[3] t^2 (the
\* kind a caller attaches to a path) or a timeParameterization::Shift of
\* another one: in is <<>> for a polynomial and <<tp_>> for a Shift.
Poly(c0, c1, c2) ==
  [kind |-> "Poly", c |-> <<c0, c1, c2>>, in |-> <<>>, t |-> 0, s |-> 0]

\* Shift(tp, t, s) : tp_(tp), t_(t), s_(s)
ShiftNew(tp, t, s) ==
  [kind |-> "Shift", c |-> <<>>, in |-> <<tp>>, t |-> t, s |-> s]

\* HPP_DYNAMIC_PTR_CAST(Shift, tp)
IsShift(tp) == tp.kind = "Shift"

\* variant: a Shift is wrapped in another Shift
ShiftCreateNested(tp, t, s) == ShiftNew(tp, t, s)

\* Shift::create
ShiftCreate(tp, t, s) ==
  IF IsShift(tp)
    THEN ShiftNew(tp.in[1], tp.t + t, tp.s + s)
    ELSE ShiftNew(tp, t, s)

\* Shift::createWithCheck
ShiftCreateWithCheck(tp, t, s) ==
  IF t = 0 /\ s = 0 THEN tp ELSE ShiftCreate(tp, t, s)

\* TimeParameterization::copy; for a Shift, create(tp_->copy(), t_, s_)
TpCopy(tp) ==
  IF IsShift(tp) THEN ShiftCreate(tp.in[1], tp.t, tp.s) ELSE tp

\* TimeParameterization::value
RECURSIVE TpValue(_, _)
TpValue(tp, x) ==
  IF IsShift(tp)
    THEN TpValue(tp.in[1], x + tp.t) + tp.s
    ELSE tp.c[1] + tp.c[2] * x + tp.c[3] * x * x

\* TimeParameterization::derivative
RECURSIVE TpDerivative(_, _, _)
TpDerivative(tp, x, order) ==
  IF IsShift(tp)
    THEN TpDerivative(tp.in[1], x + tp.t, order)
    ELSE IF order = 1 THEN tp.c[2] + 2 * tp.c[3] * x
    ELSE IF order = 2 THEN 2 * tp.c[3]
    ELSE 0

MaxShift == 3
Offsets == 0 - 1 .. 1
Polys == { Poly(0, 1, 0), Poly(1, 2, 0), Poly(0, 0, 1) }

\* a caller has a time parameterization that is not a Shift
TpStart ==
  /\ tpv.pc = "new"
  /\ \E p \in Polys :
       tpv' = [pc |-> "run", base |-> p, cur |-> p, nest |-> <<>>,
               last |-> "none"]
  /\ UNCHANGED <<projector, hm, cpv, rc, th, own, pa>>

\* Shift::create(tp, t, s) on the current time parameterization
TpCreate ==
  /\ tpv.pc = "run"
  /\ Len(tpv.nest) < MaxShift
  /\ \E t \in Offsets, s \in Offsets :
       tpv' = [tpv EXCEPT !.cur = ShiftCreate(tpv.cur, t, s),
                          !.nest = Append(tpv.nest, <<t, s>>),
                          !.last = "create"]
  /\ UNCHANGED <<projector, hm, cpv, rc, th, own, pa>>

\* Shift::createWithCheck(tp, t, s) on the current time parameterization
TpCreateWithCheck ==
  /\ tpv.pc = "run"
  /\ Len(tpv.nest) < MaxShift
  /\ \E t \in Offsets, s \in Offsets :
       tpv' = [tpv EXCEPT !.cur = ShiftCreateWithCheck(tpv.cur, t, s),
                          !.nest = Append(tpv.nest, <<t, s>>),
                          !.last = "createWithCheck"]
  /\ UNCHANGED <<projector, hm, cpv, rc, th, own, pa>>

\* copy() on the current time parameterization
TpCopyCurrent ==
  /\ tpv.pc = "run"
  /\ tpv.last # "copy"
  /\ tpv' = [tpv EXCEPT !.cur = TpCopy(tpv.cur), !.last = "copy"]
  /\ UNCHANGED <<projector, hm, cpv, rc, th, own, pa>>

NextTp ==
  \/ TpStart
  \/ TpCreate
  \/ TpCreateWithCheck
  \/ TpCopyCurrent

SpecTp == Init /\ [][NextTp]_vars


\* ------------------------------------------------ Path: the operations
\* A path: timeRange_ tr, paramRange_ pr, timeParam_ tp (<<>> when there
\* is none), its two end configurations, and geo = <<a, b>>: the
\* configuration at a parameter x inside the path is named a * x + b.
\* shifts tells that the class of the path reimplements impl_extract and
\* returns paths whose paramRange starts at 0; cons is the kind of
\* constraints_.
APath(tr, pr, tp, geo, init, end, shifts, cons) ==
  [tr |-> tr, pr |-> pr, tp |-> tp, geo |-> geo, init |-> init, end |-> end,
   shifts |-> shifts, cons |-> cons]

\* the path evaluated at a parameter: initial() at paramRange().first,
\* end() at paramRange().second
ConfAt(p, x) ==
  IF x = p.pr[1] THEN p.init
  ELSE IF x = p.pr[2] THEN p.end
  ELSE p.geo[1] * x + p.geo[2]

\* image of a time interval under a time parameterization
TpImage(tp, iv) == <<TpValue(tp, iv[1]), TpValue(tp, iv[2])>>

\* Path::timeParameterization(tp, tr): timeParam_ and timeRange_ are set
\* and paramRange_ becomes the image of the time range
SetTimeParameterization(p, tp, tr) ==
  [p EXCEPT !.tp = <<tp>>, !.tr = tr, !.pr = TpImage(tp, tr)]

\* Path(const Path& path), through copy()
CopyOfPath(p) ==
  [p EXCEPT !.tp = IF p.tp = <<>> THEN <<>> ELSE <<TpCopy(p.tp[1])>>]

\* ExtractedPath::create(original, paramInterval): the part of the
\* original between the two parameters, from the first to the second;
\* the range of a reversed interval is stored in increasing order
ExtractedPath(p, iv) ==
  IF iv[1] <= iv[2]
    THEN APath(iv, iv, <<>>, p.geo,
               ConfAt(p, iv[1]), ConfAt(p, iv[2]), p.shifts, p.cons)
    ELSE APath(<<iv[2], iv[1]>>, <<iv[2], iv[1]>>, <<>>,
               <<0 - p.geo[1], p.geo[1] * (iv[1] + iv[2]) + p.geo[2]>>,
               ConfAt(p, iv[1]), ConfAt(p, iv[2]), p.shifts, p.cons)

\* impl_extract of a class that returns a path whose paramRange starts
\* at 0
ShiftedExtract(p, iv) ==
  IF iv[1] <= iv[2]
    THEN APath(<<0, iv[2] - iv[1]>>, <<0, iv[2] - iv[1]>>, <<>>,
               <<p.geo[1], p.geo[1] * iv[1] + p.geo[2]>>,
               ConfAt(p, iv[1]), ConfAt(p, iv[2]), p.shifts, p.cons)
    ELSE APath(<<0, iv[1] - iv[2]>>, <<0, iv[1] - iv[2]>>, <<>>,
               <<0 - p.geo[1], p.geo[1] * iv[1] + p.geo[2]>>,
               ConfAt(p, iv[1]), ConfAt(p, iv[2]), p.shifts, p.cons)

\* impl_extract: Path::impl_extract, or that of the class of the path
ImplExtract(p, iv) ==
  IF p.shifts THEN ShiftedExtract(p, iv)
  ELSE IF iv = p.pr THEN CopyOfPath(p)
  ELSE ExtractedPath(p, iv)

\* shift_t, shift_s and timeInterval as Path::extract computes them from
\* the path res that impl_extract returned for paramInterval pi
ShiftOf(res, sub, pi) ==
  IF sub[1] > sub[2]
    THEN LET ss == res.pr[1] - pi[2]
         IN IF ss # 0
              THEN [t |-> sub[2], s |-> ss, ti |-> <<0, sub[1] - sub[2]>>]
              ELSE [t |-> 0, s |-> ss, ti |-> <<sub[2], sub[1]>>]
    ELSE LET ss == res.pr[1] - pi[1]
         IN IF ss # 0
              THEN [t |-> sub[1], s |-> ss, ti |-> <<0, sub[2] - sub[1]>>]
              ELSE [t |-> 0, s |-> ss, ti |-> sub]

\* The time parameterization Path::extract attaches to the extracted
\* path: the result of Shift::createWithCheck(timeParam_, shift_t,
\* shift_s) is dropped and a copy of timeParam_ is attached
AttachedTp(tp, sh) == TpCopy(tp)

\* Path::extract
Extract(p, sub) ==
  IF p.tp = <<>>
    THEN ImplExtract(p, sub)
    ELSE LET pi == TpImage(p.tp[1], sub)
             res == ImplExtract(p, pi)
             sh == ShiftOf(res, sub, pi)
         IN SetTimeParameterization(res, AttachedTp(p.tp[1], sh), sh.ti)

\* The assertions of Path::extract: "assert(res->paramRange() ==
\* paramInterval)" where nothing is shifted in a forward extraction, and
\* "assert(pr == res->paramRange())" at the end
ExtractAssertion(p, sub) ==
  p.tp # <<>> =>
    LET pi == TpImage(p.tp[1], sub)
        res == ImplExtract(p, pi)
    IN /\ (sub[1] <= sub[2] /\ ShiftOf(res, sub, pi).s = 0) => res.pr = pi
       /\ res.pr = Extract(p, sub).pr

\* variant: the bounds of the parameter range are swapped
ReverseOfParamRange(p) == Extract(p, <<p.pr[2], p.pr[1]>>)

\* Path::reverse
Reverse(p) == Extract(p, <<p.tr[2], p.tr[1]>>)


\* impl_derivative of the class of the path, here of the curve u^3
ImplDerivative(u, order) ==
  IF order = 1 THEN 3 * u * u
  ELSE IF order = 2 THEN 6 * u
  ELSE IF order = 3 THEN 6
  ELSE 0

\* variant: the term of the second derivative of the time
\* parameterization is left out
DerivativeFirstTermOnly(p, result, time, order) ==
  IF p.tp # <<>>
    THEN LET g == TpValue(p.tp[1], time)
             der == TpDerivative(p.tp[1], time, 1)
         IN IF order = 1
              THEN [result |-> ImplDerivative(g, 1) * der, err |-> "none"]
            ELSE IF order = 2
              THEN [result |-> ImplDerivative(g, 2) * (der * der),
                    err |-> "none"]
            ELSE [result |-> result, err |-> "invalid_argument"]
    ELSE [result |-> ImplDerivative(time, order), err |-> "none"]

\* Path::derivative(result, time, order): what result holds afterwards
\* and the exception thrown
Derivative(p, result, time, order) ==
  IF p.tp # <<>>
    THEN LET g == TpValue(p.tp[1], time)
             der == TpDerivative(p.tp[1], time, 1)
         IN IF order = 1
              THEN [result |-> ImplDerivative(g, 1) * der, err |-> "none"]
            ELSE IF order = 2
              THEN [result |-> ImplDerivative(g, 2) * (der * der)
                                 + ImplDerivative(g, 1)
                                     * TpDerivative(p.tp[1], time, 2),
                    err |-> "none"]
            ELSE [result |-> result, err |-> "invalid_argument"]
    ELSE [result |-> ImplDerivative(time, order), err |-> "none"]

\* the right-hand side before checkPath sets it
Stale == 0 - 1

\* variant: the end configuration is checked before the initial one
CheckPathEndFirst(p, rhs, satI, satE) ==
  IF p.cons = "none" THEN [err |-> "none", rhs |-> rhs]
  ELSE LET r2 == IF p.cons = "cp" THEN p.pr[2] ELSE rhs
       IN IF ~satE[r2]
            THEN [err |-> "projection_error: end", rhs |-> r2]
            ELSE LET r1 == IF p.cons = "cp" THEN p.pr[1] ELSE r2
                 IN IF ~satI[r1]
                      THEN [err |-> "projection_error: initial", rhs |-> r1]
                      ELSE [err |-> "none", rhs |-> r1]

\* Path::checkPath: the exception thrown and the right-hand side left in
\* the config projector.  satI[r] and satE[r] tell whether isSatisfied
\* holds for initial() and end() when the right-hand side is set at r.
CheckPath(p, rhs, satI, satE) ==
  IF p.cons = "none" THEN [err |-> "none", rhs |-> rhs]
  ELSE LET r1 == IF p.cons = "cp" THEN p.pr[1] ELSE rhs
       IN IF ~satI[r1]
            THEN [err |-> "projection_error: initial", rhs |-> r1]
            ELSE LET r2 == IF p.cons = "cp" THEN p.pr[2] ELSE r1
                 IN IF ~satE[r2]
                      THEN [err |-> "projection_error: end", rhs |-> r2]
                      ELSE [err |-> "none", rhs |-> r2]

\* Path::timeRange(interval): timeRange_ is set and paramRange_ becomes
\* its image under the time parameterization (itself when there is none)
SetTimeRange(p, tr) ==
  [p EXCEPT !.tr = tr,
            !.pr = IF p.tp = <<>> THEN tr ELSE TpImage(p.tp[1], tr)]

\* variant: the time parameterization is not looked at when saving
SerializeSaveUnchecked(p) == [err |-> "none", saved |-> TRUE]

\* Path::serialize with a saving archive: timeRange_, the sizes and
\* constraints_ are written, then a path with a time parameterization
\* throws std::logic_error; saved tells that the path was written whole
SerializeSave(p) ==
  IF p.tp # <<>>
    THEN [err |-> "logic_error", saved |-> FALSE]
    ELSE [err |-> "none", saved |-> TRUE]

\* Path::serialize with a loading archive, into a path made for loading:
\* timeRange_, the sizes and constraints_ are read from what p was saved
\* as, timeParam_ is not, and "timeRange(timeRange_)" sets paramRange_
\* (<<Stale, Stale>> is what paramRange_ holds before it is set)
SerializeLoad(p) ==
  SetTimeRange([p EXCEPT !.pr = <<Stale, Stale>>, !.tp = <<>>], p.tr)

\* ---------------------------------------------------- Path: the calls
MaxTime == 2
MaxExtract == 2

TimeIntervals == { <<a, b>> : a \in 0..MaxTime, b \in 0..MaxTime }

\* time parameterizations a caller attaches to a path
PathTps == Polys \cup { ShiftCreate(Poly(0, 1, 0), 1, 1) }

\* what the result vector holds before a call of derivative
Untouched == 0 - 1

NoCall == [op |-> "none", sub |-> <<0, 0>>, time |-> 0, order |-> 0,
           result |-> Untouched, err |-> "none", rhs |-> Stale,
           satI |-> <<>>, satE |-> <<>>]

\* a path is created on a time interval of positive length, and a time
\* parameterization may be attached to it
PaStart ==
  /\ pa.pc = "new"
  /\ \E tr \in { iv \in TimeIntervals : iv[1] < iv[2] },
        tp \in {<<>>} \cup { <<g>> : g \in PathTps },
        sh \in BOOLEAN, c \in {"none", "noCP", "cp"} :
       LET pr == IF tp = <<>> THEN tr ELSE TpImage(tp[1], tr)
           p == APath(tr, pr, tp, <<1, 0>>, pr[1], pr[2], sh, c)
       IN pa' = [pc |-> "run", orig |-> p, cur |-> p, prev |-> p,
                 ops |-> <<>>, call |-> NoCall]
  /\ UNCHANGED <<projector, hm, cpv, rc, th, own, tpv>>

\* sub-intervals of the time range of p, in both directions
SubIntervals(p) ==
  { iv \in TimeIntervals :
      /\ p.tr[1] <= iv[1] /\ iv[1] <= p.tr[2]
      /\ p.tr[1] <= iv[2] /\ iv[2] <= p.tr[2] }

\* extract(subInterval) on the current path; a violated assertion aborts
\* the program in a build with assertions and is skipped in a build
\* without
PaExtract ==
  /\ pa.pc = "run"
  /\ Len(pa.ops) < MaxExtract
  /\ \E sub \in SubIntervals(pa.cur) :
       \/ /\ ~ExtractAssertion(pa.cur, sub)
          /\ pa' = [pa EXCEPT !.pc = "aborted",
                              !.call = [NoCall EXCEPT !.op = "extract",
                                                      !.sub = sub]]
       \/ pa' = [pa EXCEPT !.cur = Extract(pa.cur, sub),
                           !.prev = pa.cur,
                           !.ops = Append(pa.ops, "extract"),
                           !.call = [NoCall EXCEPT !.op = "extract",
                                                   !.sub = sub]]
  /\ UNCHANGED <<projector, hm, cpv, rc, th, own, tpv>>

\* reverse() on the current path
PaReverse ==
  /\ pa.pc = "run"
  /\ Len(pa.ops) < MaxExtract
  /\ \/ /\ ~ExtractAssertion(pa.cur, <<pa.cur.tr[2], pa.cur.tr[1]>>)
        /\ pa' = [pa EXCEPT !.pc = "aborted",
                            !.call = [NoCall EXCEPT !.op = "reverse"]]
     \/ pa' = [pa EXCEPT !.cur = Reverse(pa.cur),
                         !.prev = pa.cur,
                         !.ops = Append(pa.ops, "reverse"),
                         !.call = [NoCall EXCEPT !.op = "reverse"]]
  /\ UNCHANGED <<projector, hm, cpv, rc, th, own, tpv>>

\* derivative(result, time, order) on the current path
PaDerivative ==
  /\ pa.pc = "run"
  /\ \E t \in 0..MaxTime, o \in 1..4 :
       /\ pa.cur.tr[1] <= t /\ t <= pa.cur.tr[2]
       /\ LET d == Derivative(pa.cur, Untouched, t, o)
          IN pa' = [pa EXCEPT !.pc = "done",
                              !.call = [NoCall EXCEPT !.op = "derivative",
                                                      !.time = t,
                                                      !.order = o,
                                                      !.result = d.result,
                                                      !.err = d.err]]
  /\ UNCHANGED <<projector, hm, cpv, rc, th, own, tpv>>

\* checkPath() on the current path
PaCheckPath ==
  /\ pa.pc = "run"
  /\ LET rs == {Stale, pa.cur.pr[1], pa.cur.pr[2]}
     IN \E satI \in [rs -> BOOLEAN], satE \in [rs -> BOOLEAN] :
          LET c == CheckPath(pa.cur, Stale, satI, satE)
          IN pa' = [pa EXCEPT !.pc = "done",
                              !.call = [NoCall EXCEPT !.op = "checkPath",
                                                      !.err = c.err,
                                                      !.rhs = c.rhs,
                                                      !.satI = satI,
                                                      !.satE = satE]]
  /\ UNCHANGED <<projector, hm, cpv, rc, th, own, tpv>>

\* the current path is saved to an archive
PaSave ==
  /\ pa.pc = "run"
  /\ LET r == SerializeSave(pa.cur)
     IN pa' = [pa EXCEPT !.pc = IF r.saved THEN "saved" ELSE "done",
                         !.call = [NoCall EXCEPT !.op = "save",
                                                 !.err = r.err]]
  /\ UNCHANGED <<projector, hm, cpv, rc, th, own, tpv>>

\* a path is loaded from the archive the current path was saved to
PaLoad ==
  /\ pa.pc = "saved"
  /\ pa' = [pa EXCEPT !.pc = "done",
                      !.cur = SerializeLoad(pa.cur),
                      !.prev = pa.cur,
                      !.call = [NoCall EXCEPT !.op = "load"]]
  /\ UNCHANGED <<projector, hm, cpv, rc, th, own, tpv>>

NextPath ==
  \/ PaStart
  \/ PaExtract
  \/ PaReverse
  \/ PaDerivative
  \/ PaCheckPath
  \/ PaSave
  \/ PaLoad

SpecPath == Init /\ [][NextPath]_vars


\* ------------------------------------------ Hermite: the cached length
\* A Hermite path in one dimension: len is the length of its time range,
\* rows the four control points parameters_.row(0..3), kept multiplied by
\* 3 so that "speed / 3 * length" stays an integer, and hl the cached
\* hermiteLength_ (in the same unit, or Unknown).
Speeds == 0 - 1 .. 1

Abs(x) == IF x < 0 THEN 0 - x ELSE x

\* length of the control polygon, the closed form computeHermiteLength
\* stores
ControlLength(rows) ==
  Abs(rows[2] - rows[1]) + Abs(rows[3] - rows[2]) + Abs(rows[4] - rows[3])

\* Hermite(device, init, end, constraints, timeRange): row 0 is zero, row 3
\* the difference end - init, hermiteLength_(-1); projectVelocities leaves
\* the velocities a and b in rows 1 and 2
HermiteNew(len, diff, a, b) ==
  [len |-> len, rows |-> <<0, a * len, 3 * diff - b * len, 3 * diff>>,
   hl |-> Unknown]

\* void v0(speed): "parameters_.row(1) = speed / 3 * length", then the
\* cached length is dropped
SetV0(p, speed) == SetVelocity([p EXCEPT !.rows[2] = speed * p.len])

\* void v1(speed): "parameters_.row(2) = parameters_.row(3) - speed / 3 *
\* length", then the cached length is dropped
SetV1(p, speed) ==
  SetVelocity([p EXCEPT !.rows[3] = p.rows[4] - speed * p.len])

\* vector_t v0() const: "3 * (row(1) - row(0)) / length"
GetV0(p) == (p.rows[2] - p.rows[1]) \div p.len

\* vector_t v1() const: "3 * (row(3) - row(2)) / length"
GetV1(p) == (p.rows[4] - p.rows[3]) \div p.len

\* const value_type& hermiteLength() const { return hermiteLength_; }
HermiteLength(p) == p.hl

\* a Hermite path is created
HmCreate ==
  /\ hm.pc = "new"
  /\ \E len \in 1..MaxTime, diff \in 0..1, a \in Speeds, b \in Speeds :
       hm' = [pc |-> "run", path |-> HermiteNew(len, diff, a, b),
              op |-> "create", mutated |-> FALSE, read |-> Unknown]
  /\ UNCHANGED <<projector, th, own, tpv, pa, cpv, rc>>

\* v0(speed) on the path
HmSetV0 ==
  /\ hm.pc = "run"
  /\ \E speed \in Speeds :
       hm' = [hm EXCEPT !.path = SetV0(hm.path, speed), !.op = "v0",
                        !.mutated = TRUE]
  /\ UNCHANGED <<projector, th, own, tpv, pa, cpv, rc>>

\* v1(speed) on the path
HmSetV1 ==
  /\ hm.pc = "run"
  /\ \E speed \in Speeds :
       hm' = [hm EXCEPT !.path = SetV1(hm.path, speed), !.op = "v1",
                        !.mutated = TRUE]
  /\ UNCHANGED <<projector, th, own, tpv, pa, cpv, rc>>

\* computeHermiteLength() on the path
HmCompute ==
  /\ hm.pc = "run"
  /\ hm.op # "compute"
  /\ hm' = [hm EXCEPT
              !.path = ComputeHermiteLength(hm.path,
                                            ControlLength(hm.path.rows)),
              !.op = "compute", !.mutated = FALSE]
  /\ UNCHANGED <<projector, th, own, tpv, pa, cpv, rc>>

\* hermiteLength() on the path: read holds the value returned
HmRead ==
  /\ hm.pc = "run"
  /\ hm.op # "read"
  /\ hm' = [hm EXCEPT !.read = HermiteLength(hm.path), !.op = "read"]
  /\ UNCHANGED <<projector, th, own, tpv, pa, cpv, rc>>

NextHm ==
  \/ HmCreate
  \/ HmSetV0
  \/ HmSetV1
  \/ HmCompute
  \/ HmRead

SpecHm == Init /\ [][NextHm]_vars


\* ------------------------------- ConfigProjector: the right-hand sides
\* The numerical constraints of a config projector: each has a comparison
\* kind, a function f of the configuration (f[q] is its value at q) and a
\* right-hand side.  A constraint is satisfied at q when f[q] - rhs is
\* zero (equality) or not negative (inequality).
MaxCons == 2

ConstraintSeqs ==
  UNION { [1..n -> [kind : {"Equality", "Inequality"},
                    f : [Configs -> Rhs], rhs : Rhs]] : n \in 1..MaxCons }

\* variant: the right-hand side of every constraint is set
RightHandSideFromConfigAll(cs, q) ==
  [k \in 1..Len(cs) |-> [cs[k] EXCEPT !.rhs = cs[k].f[q]]]

\* vector_t rightHandSideFromConfig(config): the constraints afterwards
RightHandSideFromConfig(cs, q) ==
  [k \in 1..Len(cs) |->
     IF cs[k].kind = "Equality"
       THEN [cs[k] EXCEPT !.rhs = cs[k].f[q]]
       ELSE cs[k]]

\* void rightHandSide(param): the level set parameter is set
RightHandSide(cs, param) ==
  [k \in 1..Len(cs) |-> [cs[k] EXCEPT !.rhs = param[k]]]

\* the residual of constraint c at q
Residual(c, q) == c.f[q] - c.rhs

\* the three forms of isSatisfied: the value returned, the error vector
\* of the third form, and the constraints afterwards
IsSatisfied(cs, q) ==
  [ok |-> \A k \in 1..Len(cs) :
            IF cs[k].kind = "Equality"
              THEN Residual(cs[k], q) = 0
              ELSE Residual(cs[k], q) >= 0,
   error |-> [k \in 1..Len(cs) |-> Residual(cs[k], q)],
   cons |-> cs]

NoQuery == [op |-> "none", q |-> 0, ok |-> TRUE, error |-> <<>>]

\* a config projector is created and numerical constraints are added
CpCreate ==
  /\ cpv.pc = "new"
  /\ \E cs \in ConstraintSeqs :
       cpv' = [pc |-> "run", cons |-> cs, before |-> cs, call |-> NoQuery]
  /\ UNCHANGED <<projector, th, own, tpv, pa, hm, rc>>

\* rightHandSideFromConfig(config)
CpRightHandSideFromConfig ==
  /\ cpv.pc = "run"
  /\ \E q \in Configs :
       cpv' = [cpv EXCEPT !.cons = RightHandSideFromConfig(cpv.cons, q),
                          !.before = cpv.cons,
                          !.call = [NoQuery EXCEPT
                                      !.op = "rightHandSideFromConfig",
                                      !.q = q]]
  /\ UNCHANGED <<projector, th, own, tpv, pa, hm, rc>>

\* rightHandSide(param)
CpRightHandSide ==
  /\ cpv.pc = "run"
  /\ cpv.call.op # "rightHandSide"
  /\ \E param \in [1..Len(cpv.cons) -> Rhs] :
       cpv' = [cpv EXCEPT !.cons = RightHandSide(cpv.cons, param),
                          !.before = cpv.cons,
                          !.call = [NoQuery EXCEPT !.op = "rightHandSide"]]
  /\ UNCHANGED <<projector, th, own, tpv, pa, hm, rc>>

\* isSatisfied(config), isSatisfied(config, errorThreshold) and
\* isSatisfied(config, error)
CpIsSatisfied ==
  /\ cpv.pc = "run"
  /\ \E q \in Configs,
        form \in {"isSatisfied(config)", "isSatisfied(config, threshold)",
                  "isSatisfied(config, error)"} :
       LET r == IsSatisfied(cpv.cons, q)
       IN cpv' = [cpv EXCEPT !.cons = r.cons,
                             !.before = cpv.cons,
                             !.call = [op |-> form, q |-> q, ok |-> r.ok,
                                       error |-> r.error]]
  /\ UNCHANGED <<projector, th, own, tpv, pa, hm, rc>>

NextCp ==
  \/ CpCreate
  \/ CpRightHandSideFromConfig
  \/ CpRightHandSide
  \/ CpIsSatisfied

SpecCp == Init /\ [][NextCp]_vars


\* ------------------------------------- recurse: the two children built
\* The three definitions of RecursiveHermite::recurse build the children
\* of a piece differently.  A piece is a Hermite path in one dimension
\* with its time range (t0, t1), in the ticks of TimeUnit, and its end
\* configurations.
RcSpeeds == {0 - 2, 0, 2}

\* Hermite path from q0 to q1 over (t0, t1), velocities a and b
HermiteOver(t0, t1, q0, q1, a, b) ==
  LET h == HermiteNew(t1 - t0, q1 - q0, a, b)
  IN [t0 |-> t0, t1 |-> t1, init |-> q0, end |-> q1, len |-> h.len,
      rows |-> h.rows, hl |-> h.hl]

\* "const value_type t = ...": the time the piece is evaluated at; the
\* first definition of recursive-hermite.cc has the constant 0.5
BisectTime(copy, p) ==
  IF copy = "recursive-hermite.cc/1" THEN TimeUnit \div 2 ELSE MidTime(p)

\* the speed a child is given: the first definition of
\* recursive-hermite.cc divides it by two
ChildSpeed(copy, v) == IF copy = "recursive-hermite.cc/1" THEN v \div 2 ELSE v

\* the child steer(qa, qb) or steer_with_timeRange(qa, qb, (ta, tb))
\* returns: steer builds it over the time range of the steering method
Steered(copy, qa, qb, ta, tb) ==
  IF copy = "recursive-hermite.cc/1"
    THEN HermiteOver(0, TimeUnit, qa, qb, 0, 0)
    ELSE HermiteOver(ta, tb, qa, qb, 0, 0)

\* left child: steered from q0 to q1, then v0, v1, computeHermiteLength
RcLeft(copy, p, q1, vHalf) ==
  LET c == SetV1(SetV0(Steered(copy, p.init, q1, p.t0, BisectTime(copy, p)),
                       ChildSpeed(copy, GetV0(p))),
                 ChildSpeed(copy, vHalf))
  IN ComputeHermiteLength(c, ControlLength(c.rows))

\* right child: steered from q1 to q2, then v0, v1, computeHermiteLength
RcRight(copy, p, q1, vHalf) ==
  LET c == SetV1(SetV0(Steered(copy, q1, p.end, BisectTime(copy, p), p.t1),
                       ChildSpeed(copy, vHalf)),
                 ChildSpeed(copy, GetV1(p)))
  IN ComputeHermiteLength(c, ControlLength(c.rows))

\* recurse is called on a piece whose length is not below acceptThr
RcCall ==
  /\ rc.pc = "new"
  /\ \E copy \in Copies, t0 \in {0, TimeUnit}, len \in {TimeUnit, 2 * TimeUnit},
        q0 \in Configs, q2 \in Configs, a \in RcSpeeds, b \in RcSpeeds :
       LET p == HermiteOver(t0, t0 + len, q0, q2, a, b)
       IN rc' = [pc |-> "called", copy |-> copy,
                 path |-> ComputeHermiteLength(p, ControlLength(p.rows)),
                 t |-> 0, q1 |-> 0, vHalf |-> 0, left |-> p, right |-> p]
  /\ UNCHANGED <<projector, th, own, tpv, pa, hm, cpv>>

\* recurse from the evaluation at t to the two children; q1 is the
\* configuration path->eval(t) gives and vHalf what path->velocity(t) gives
RcBisect ==
  /\ rc.pc = "called"
  /\ \E q1 \in Configs, vHalf \in RcSpeeds :
       rc' = [rc EXCEPT !.pc = "built",
                        !.t = BisectTime(rc.copy, rc.path),
                        !.q1 = q1,
                        !.vHalf = vHalf,
                        !.left = RcLeft(rc.copy, rc.path, q1, vHalf),
                        !.right = RcRight(rc.copy, rc.path, q1, vHalf)]
  /\ UNCHANGED <<projector, th, own, tpv, pa, hm, cpv>>

NextRc ==
  \/ RcCall
  \/ RcBisect

SpecRc == Init /\ [][NextRc]_vars


\* ================================================================ claims

\* C1: constructing the projector fails with invalid_argument exactly
\* when beta < 0.5 or beta > 1; for 0.5 <= beta <= 1, the bounds 0.5 and
\* 1.0 included, no error is raised on account of beta.  Holds for the
\* constructor without and the one with interpolationTimes.
C1_BetaBounds ==
  pc # "new" =>
    /\ args.ctor \in {1, 2}
    /\ (args.beta10 < 5 \/ args.beta10 > 10)
         => (err = "invalid_argument: beta" /\ pc = "threw")
    /\ (5 <= args.beta10 /\ args.beta10 <= 10)
         => err # "invalid_argument: beta"
    /\ (5 <= args.beta10 /\ args.beta10 <= 10 /\ args.sm = "Hermite")
         => (err = "none" /\ pc # "threw")

\* beta = 0.5 accepted by the constructor with interpolationTimes
C1_Witness ==
  /\ pc = "idle"
  /\ args.beta10 = 5
  /\ args.ctor = 2
  /\ rh.beta10 = 5

\* C2: with a steering method that is not of the Hermite kind the
\* constructor fails with invalid_argument even when beta is in [0.5, 1],
\* and no projector exists afterwards: no call of apply or project is
\* ever made.
C2_SteeringKind ==
  (pc # "new" /\ args.sm # "Hermite" /\ 5 <= args.beta10 /\ args.beta10 <= 10)
    => /\ err = "invalid_argument: steering method"
       /\ pc = "threw"
       /\ rh = NoRH
       /\ entry = "none"
       /\ input = Null

\* a straight steering method with beta = 1.0 was refused
C2_Witness ==
  /\ pc = "threw"
  /\ args.sm = "Straight"
  /\ args.beta10 = 10
  /\ err = "invalid_argument: steering method"


\* end of piece k is the start of piece k+1, for every adjacent pair
Continuous(p) ==
  \A k \in 1..(Len(p.sub) - 1) : End(p.sub[k]) = Initial(p.sub[k + 1])

\* C3: every path sequence project returns, as its result on success or
\* as its partial result on failure, is continuous: the end configuration
\* of piece i is exactly the initial configuration of piece i+1.
C3_Continuity ==
  [][pc = "finish" =>
       LET o == out'[level + 1]
       IN o.kind = "PathVector" => Continuous(o)]_vars

\* project failed and returned a sequence of at least two pieces that
\* come from a subdivision
C3_Witness ==
  /\ pc = "applyExit"
  /\ level = 0
  /\ input.kind # "PathVector"
  /\ succ = "F"
  /\ out[1].kind = "PathVector"
  /\ Len(out[1].sub) >= 2
  /\ nBisect >= 1

\* hermiteLength of piece x is strictly below thr = 2 * errorThreshold / M
PieceBelowThr(x) == x.hl * rh.M < 2 * cur.eps

AllBelowThr(p) == \A k \in 1..Len(p.sub) : PieceBelowThr(p.sub[k])

\* C4: no piece whose Hermite length is at or above the acceptance
\* threshold is ever appended to the output of project or recurse, and
\* when project returns success every piece of its output is strictly
\* below the threshold.
C4_LeavesBelowThreshold ==
  /\ [](pc \in {"loop", "recurse", "afterRecurse", "finish"}
          => AllBelowThr(pj.res) /\ AllBelowThr(pj.r))
  /\ [][(pc = "finish" /\ succ' = "T") =>
          LET o == out'[level + 1]
          IN o.kind = "PathVector" /\ AllBelowThr(o)]_vars

\* project succeeded after subdividing and returned several pieces
C4_Witness ==
  /\ pc = "applyExit"
  /\ level = 0
  /\ input.kind # "PathVector"
  /\ succ = "T"
  /\ out[1].kind = "PathVector"
  /\ Len(out[1].sub) >= 2
  /\ nBisect >= 1

\* C5: when apply returns success, the returned path has the initial and
\* the end configuration of the input path; for a path vector this holds
\* for the call on each piece and for the call on the vector.
C5_EndpointsPreserved ==
  /\ (pc = "done" /\ entry = "apply" /\ succ = "T")
       => /\ out[1] # Null
          /\ Initial(out[1]) = Initial(input)
          /\ End(out[1]) = End(input)
  /\ (pc = "pvStep" /\ succ = "T")
       => /\ out[2] # Null
          /\ Initial(out[2]) = Initial(input.sub[pv.i])
          /\ End(out[2]) = End(input.sub[pv.i])

\* apply succeeded on a path vector of two pieces, with a subdivision
C5_Witness ==
  /\ pc = "done"
  /\ entry = "apply"
  /\ succ = "T"
  /\ input.kind = "PathVector"
  /\ Len(input.sub) = 2
  /\ nBisect >= 1
  /\ End(out[1]) = End(input)


\* C6: whenever project or apply returns failure, its output path is set:
\* not null, and starting at the initial configuration of the path it was
\* called on.
C6_FailureSetsOutput ==
  /\ (pc = "done" /\ succ = "F")
       => (out[1] # Null /\ Initial(out[1]) = Initial(input))
  /\ (pc = "pvStep" /\ succ = "F")
       => (out[2] # Null /\ Initial(out[2]) = Initial(input.sub[pv.i]))

\* C7: apply on a path that is not a path vector and has no constraint
\* set, or a constraint set without config projector, returns success
\* with the input path itself as output, without any call of steer or
\* recurse and without touching the steering method; project on a path
\* without constraint set does the same.
C7_PassThrough ==
  /\ (entry = "apply" /\ input.kind # "PathVector"
        /\ input.cons \in {"none", "noCP"})
       => /\ pc \in {"apply", "applyExit", "done"}
          /\ steers = 0 /\ nBisect = 0 /\ hist.recursed = 0 /\ ~smSet
          /\ pc \in {"applyExit", "done"} => (succ = "T" /\ out[1] = input)
  /\ (entry = "project" /\ input.cons = "none")
       => /\ pc \in {"project", "done"}
          /\ steers = 0 /\ nBisect = 0 /\ hist.recursed = 0 /\ ~smSet
          /\ pc = "done" => (succ = "T" /\ out[1] = input)

\* apply returned an interpolated path whose constraint set has no
\* config projector
C7_Witness ==
  /\ pc = "done"
  /\ entry = "apply"
  /\ input.kind = "Interpolated"
  /\ input.cons = "noCP"
  /\ ~input.endSat
  /\ succ = "T"
  /\ out[1] = input

\* C8: when the end configuration of the path does not satisfy the
\* path's constraints, project returns failure at once: no call of steer,
\* no change of the steering method's constraints, no call of recurse.
C8_PreCheckFailsFirst ==
  [][(pc = "project" /\ cur.cons # "none" /\ ~cur.endSat) =>
       /\ succ' = "F"
       /\ pc' \in {"applyExit", "done"}
       /\ steers' = steers
       /\ smSet' = smSet
       /\ hist'.recursed = hist.recursed
       /\ nBisect' = nBisect
       /\ stack' = stack
       /\ pj' = pj]_vars

\* project failed at the pre-check on a path with a config projector of
\* positive dimension
C8_Witness ==
  /\ pc = "applyExit"
  /\ entry = "apply"
  /\ level = 0
  /\ cur.cons = "cp"
  /\ ~cur.endSat
  /\ succ = "F"
  /\ steers = 0
  /\ ~smSet

\* C9: once a midpoint evaluation fails, the call of recurse that made it
\* returns failure without appending a piece, and every ancestor returns
\* failure in turn: no further call of recurse or steer is made and
\* nothing more is appended, so that the output holds exactly the pieces
\* accepted before the failure, in order.
C9_EvalFailureUnwinds ==
  /\ [][hist'.evalFailed =>
          /\ pj'.r = pj.r
          /\ hist'.recursed = hist.recursed
          /\ steers' = steers
          /\ nBisect' = nBisect
          /\ pc = "recurse" => (ret' = "F" /\ stack' = Caller)]_vars
  /\ []((hist.evalFailed /\ pc = "afterRecurse")
          => (ret = "F" /\ pj.res.sub \o pj.r.sub = hist.accepted))
  /\ []((hist.evalFailed /\ pc = "finish")
          => (~pj.success /\ pj.res.sub = hist.accepted))

\* the right child of the left child failed at its midpoint after the
\* left child of the left child was accepted: two ancestors are left
C9_Witness ==
  /\ hist.evalFailed
  /\ pc = "recurse"
  /\ Len(stack) = 2
  /\ stack[1].pc = "left"
  /\ stack[2].pc = "right"
  /\ Len(pj.r.sub) = 1

ExceedsL(f) == 10 * f.left.hl > rh.beta10 * f.path.hl
ExceedsR(f) == 10 * f.right.hl > rh.beta10 * f.path.hl

\* C10: with stopThr = beta * length of the piece, recurse returns
\* failure without recursing into the right child when a child is
\* strictly longer than stopThr; a child exactly as long as stopThr does
\* not stop the subdivision.  The right child is recursed into exactly
\* when both children passed the check and the recursion into the left
\* child succeeded.
C10_ContractionCheck ==
  [][pc = "recurse" =>
       /\ Top.pc = "check" =>
            IF ExceedsL(Top)
              THEN ret' = "F" /\ stack' = Caller
              ELSE /\ Len(stack') = Len(stack) + 1
                   /\ stack'[Len(stack')].path = Top.left
       /\ (Top.pc = "left" /\ ret # "none") =>
            IF ret = "T" /\ ~ExceedsL(Top) /\ ~ExceedsR(Top)
              THEN /\ Len(stack') = Len(stack) + 1
                   /\ stack'[Len(stack')].path = Top.right
                   /\ stack'[Len(stack)].pc = "right"
              ELSE ret' = "F" /\ stack' = Caller
       /\ (Top.pc = "right" /\ ret # "none") =>
            /\ ~ExceedsL(Top) /\ ~ExceedsR(Top)
            /\ ret' = ret
            /\ stack' = Caller]_vars

\* the right child was recursed into although it is exactly as long as
\* stopThr
C10_Witness ==
  \E k \in 1..Len(stack) :
    /\ stack[k].pc = "right"
    /\ stack[k].path.hl > 0
    /\ 10 * stack[k].right.hl = rh.beta10 * stack[k].path.hl

\* x comes before y on the time range of candidate piece c, which is
\* covered from c.t0 to c.t1
Before(x, y, c) == IF c.t0 <= c.t1 THEN x.t1 <= y.t0 ELSE x.t1 >= y.t0

\* x covers a part of the time range of c, in the direction of c
Inside(x, c) ==
  IF c.t0 <= c.t1
    THEN c.t0 <= x.t0 /\ x.t0 <= x.t1 /\ x.t1 <= c.t1
    ELSE c.t0 >= x.t0 /\ x.t0 >= x.t1 /\ x.t1 >= c.t1

TimeOrdered(s, c) ==
  /\ \A k \in 1..Len(s) : Inside(s[k], c)
  /\ \A k \in 1..Len(s), j \in 1..Len(s) : k < j => Before(s[k], s[j], c)

\* C11: the pieces recurse appends for one candidate piece are in
\* increasing time order: of any two, the one earlier in the sequence
\* covers an earlier part of the candidate's time range.  project appends
\* the pieces of candidate i, all of them and at the end of its output,
\* before it moves to candidate i+1, so that the pieces of candidate i
\* precede those of candidate i+1.
C11_TimeOrder ==
  /\ [](pc \in {"recurse", "afterRecurse"}
          => TimeOrdered(pj.r.sub, pj.ps[pj.i]))
  /\ [][
          /\ (pc = "loop" /\ pc' # "recurse")
             => /\ pj'.res.sub = Append(pj.res.sub, pj'.ps[pj.i])
                /\ pj'.i = pj.i + 1
          /\ (pc = "loop" /\ pc' = "recurse")
             => (pj'.res = pj.res /\ pj'.r.sub = <<>> /\ pj'.i = pj.i)
          /\ (pc = "recurse")
             => /\ pj'.res = pj.res /\ pj'.i = pj.i
                /\ \/ pj'.r = pj.r
                   \/ /\ Len(pj'.r.sub) = Len(pj.r.sub) + 1
                      /\ SubSeq(pj'.r.sub, 1, Len(pj.r.sub)) = pj.r.sub
          /\ (pc = "afterRecurse")
             => /\ pj'.res.sub = pj.res.sub \o pj.r.sub
                /\ pj'.i \in {pj.i, pj.i + 1}
       ]_vars

\* project ends with the first candidate piece split in two and the second
\* candidate piece after them
C11_Witness ==
  /\ pc = "finish"
  /\ Len(pj.ps) = 2
  /\ pj.i = 3
  /\ Len(pj.res.sub) = 3
  /\ pj.res.sub[1].t1 = pj.res.sub[2].t0
  /\ pj.res.sub[1].t1 < pj.res.sub[2].t1
  /\ pj.res.sub[3] = pj.ps[2]
  /\ pj.res.sub[2].t1 <= pj.res.sub[3].t0

\* C13: when project fails after its pre-checks, its output depends on the
\* number n of pieces accumulated: for n = 0 a path of zero length
\* extracted at the start time of the input, for n = 1 that piece itself
\* and not a sequence, for n >= 2 the sequence of the n pieces.  The
\* pieces accumulated include those the failing call of recurse appended
\* before it failed.
C13_PartialResult ==
  [][(pc = "finish" /\ ~pj.success) =>
       LET n == Len(pj.res.sub)
           o == out'[level + 1]
       IN /\ succ' = "F"
          /\ pj.res.sub = hist.accepted
          /\ n = 0 => /\ o.kind = "Extracted"
                      /\ o.t0 = cur.t0 /\ o.t1 = cur.t0
                      /\ o.init = Initial(cur) /\ o.end = Initial(cur)
          /\ n = 1 => (o = pj.res.sub[1] /\ o.kind = "Hermite")
          /\ n >= 2 => (o.kind = "PathVector" /\ o.sub = pj.res.sub)]_vars

\* project failed on a Hermite path and returned the left half, the only
\* piece the failing call of recurse had appended
C13_Witness ==
  /\ pc = "applyExit"
  /\ level = 0
  /\ input.kind = "Hermite"
  /\ succ = "F"
  /\ out[1].kind = "Hermite"
  /\ out[1].t0 = input.t0
  /\ out[1].t1 < input.t1
  /\ hist.accepted = <<out[1]>>

\* C14: apply on a path sequence processes the pieces in rank order and
\* stops at the first piece whose apply fails.  The output then holds the
\* results of the pieces processed with success, each once and in input
\* order, followed by at most the partial result of the failing piece:
\* output piece j comes from input piece j, so it starts where input piece
\* j starts and, for a piece processed with success, ends where it ends.
\* No result of an earlier piece appears twice.
C14_PathVectorPrefix ==
  (pc = "applyExit" /\ level = 0 /\ input.kind = "PathVector" /\ succ = "F")
    => LET k == pv.i
           o == out[1].sub
       IN /\ out[1].kind = "PathVector"
          /\ Len(o) \in {k - 1, k}
          /\ \A j \in 1..Len(o) : Initial(o[j]) = Initial(input.sub[j])
          /\ \A j \in 1..(k - 1) : End(o[j]) = End(input.sub[j])

\* C12: project uses the acceptance threshold thr = 2 * errorThreshold / M,
\* with the error threshold of the config projector and the M given at
\* construction, and the same thr for the test that keeps a candidate
\* piece as it is and as acceptThr of recurse.
C12_Threshold ==
  /\ th.pc = "loop" => th.thr[1] * th.M = 2 * th.eps * th.thr[2]
  /\ (th.pc = "idle" /\ th.kept) => th.len * th.M < 2 * th.eps
  /\ th.pc = "recurse"
       => /\ ~(th.len * th.M < 2 * th.eps)
          /\ th.acceptThr[1] * th.M = 2 * th.eps * th.acceptThr[2]
  /\ (th.pc = "idle" /\ th.leaf) => th.len * th.M < 2 * th.eps

\* path k refers to a constraint set no other path and no caller refers to
Exclusive(k) ==
  LET c == own.paths[k].cons
  IN c # 0 =>
       /\ c \notin own.refs
       /\ \A j \in 1..Len(own.paths) : j # k => own.paths[j].cons # c

\* C15: after any construction or copy of a path (constructor with
\* constraints, copy constructor, copy constructor with constraints) the
\* constraint set of the new path is shared with no other path and with
\* no reference a caller holds.
C15_ExclusiveConstraints ==
  (own.pc = "run" /\ own.built # 0) => Exclusive(own.built)

\* the Shift objects one inside the other, as the constructor nests them
RECURSIVE NestedShifts(_, _)
NestedShifts(tp, nest) ==
  IF nest = <<>> THEN tp
  ELSE NestedShifts(ShiftNew(tp, nest[1][1], nest[1][2]), Tail(nest))

RECURSIVE SumOf(_, _)
SumOf(nest, k) == IF nest = <<>> THEN 0 ELSE nest[1][k] + SumOf(Tail(nest), k)

Times == 0 - 2 .. 2

\* C17: shifting a shifted time parameterization folds into one Shift:
\* after shifts by (t1, s1), (t2, s2), ... of tp the result is one Shift
\* over tp with offsets (t1 + t2 + ..., s1 + s2 + ...), whose value at
\* every t is that of the nested composition; createWithCheck with
\* offsets (0, 0) returns the time parameterization given.  After any
\* sequence of create, createWithCheck and copy the inner time
\* parameterization of a Shift is not a Shift, and the result depends on
\* the sums only (folding is associative).
C17_ShiftFolds ==
  /\ [](tpv.pc = "run" =>
          /\ \A x \in Times :
               TpValue(tpv.cur, x) = TpValue(NestedShifts(tpv.base, tpv.nest), x)
          /\ IF IsShift(tpv.cur)
               THEN /\ tpv.cur.in[1] = tpv.base
                    /\ ~IsShift(tpv.cur.in[1])
                    /\ tpv.cur.t = SumOf(tpv.nest, 1)
                    /\ tpv.cur.s = SumOf(tpv.nest, 2)
               ELSE /\ tpv.cur = tpv.base
                    /\ \A k \in 1..Len(tpv.nest) : tpv.nest[k] = <<0, 0>>)
  /\ [][(tpv.pc = "run" /\ tpv'.last = "createWithCheck"
           /\ Len(tpv'.nest) > Len(tpv.nest)
           /\ tpv'.nest[Len(tpv'.nest)] = <<0, 0>>)
          => tpv'.cur = tpv.cur]_vars

\* three shifts of a quadratic time parameterization folded into one
C17_Witness ==
  /\ tpv.pc = "run"
  /\ Len(tpv.nest) = 3
  /\ \A k \in 1..3 : tpv.nest[k] # <<0, 0>>
  /\ tpv.base = Poly(0, 0, 1)
  /\ IsShift(tpv.cur)
  /\ tpv.cur.t = 2
  /\ tpv.cur.s = 0 - 1
  /\ tpv.cur.in[1] = tpv.base

\* the interval the last call of extract or reverse extracted
LastSub ==
  IF pa.call.op = "reverse" THEN <<pa.prev.tr[2], pa.prev.tr[1]>>
  ELSE pa.call.sub

\* C16: for a path with a time parameterization, extract(subInterval)
\* returns a path whose paramRange, once the time parameterization is
\* attached with the chosen time interval, is unchanged: it is the
\* paramRange of the path the extraction of the class returned, and it is
\* the image of the time range of the returned path under its time
\* parameterization.  This holds for forward and reversed sub-intervals
\* and when the class returns a path whose paramRange starts at 0.
C16_ParamRangeKept ==
  (pa.pc = "run" /\ pa.call.op \in {"extract", "reverse"}
     /\ pa.prev.tp # <<>>)
    => /\ pa.cur.tp # <<>>
       /\ pa.cur.pr
            = ImplExtract(pa.prev, TpImage(pa.prev.tp[1], LastSub)).pr
       /\ pa.cur.pr = TpImage(pa.cur.tp[1], pa.cur.tr)

\* C18: reverse() returns exactly extract over the interval
\* (timeRange.second, timeRange.first): the path runs from the end
\* configuration to the initial one.  Reversal is an involution on the
\* end configurations: p.reverse().reverse() has the initial and the end
\* configuration of p, with and without a time parameterization.
C18_ReverseInvolution ==
  (pa.pc = "run" /\ pa.call.op = "reverse")
    => /\ pa.cur = Extract(pa.prev, <<pa.prev.tr[2], pa.prev.tr[1]>>)
       /\ pa.cur.init = pa.prev.end
       /\ pa.cur.end = pa.prev.init
       /\ pa.ops = <<"reverse", "reverse">>
            => (pa.cur.init = pa.orig.init /\ pa.cur.end = pa.orig.end)

\* a path with the time parameterization 1 + 2 t was reversed twice
C18_Witness ==
  /\ pa.pc = "run"
  /\ pa.ops = <<"reverse", "reverse">>
  /\ pa.orig.tp = <<Poly(1, 2, 0)>>
  /\ pa.orig.init # pa.orig.end
  /\ pa.prev.init = pa.orig.end
  /\ pa.cur.init = pa.orig.init

\* C19: with a time parameterization g attached, Path::derivative of an
\* order above 2 fails with invalid_argument and leaves the result as it
\* was; order 1 gives f'(g(t)) g'(t) and order 2 gives
\* f''(g(t)) g'(t)^2 + f'(g(t)) g''(t).  Without one, g is the identity.
C19_Derivative ==
  (pa.pc = "done" /\ pa.call.op = "derivative")
    => LET t == pa.call.time
           o == pa.call.order
       IN IF pa.cur.tp # <<>>
            THEN LET g == pa.cur.tp[1]
                     gt == TpValue(g, t)
                     g1 == TpDerivative(g, t, 1)
                     g2 == TpDerivative(g, t, 2)
                 IN /\ o > 2 => /\ pa.call.err = "invalid_argument"
                                /\ pa.call.result = Untouched
                    /\ o = 1 => /\ pa.call.err = "none"
                                /\ pa.call.result = 3 * gt * gt * g1
                    /\ o = 2 => /\ pa.call.err = "none"
                                /\ pa.call.result
                                     = 6 * gt * g1 * g1 + 3 * gt * gt * g2
            ELSE /\ o = 1 => pa.call.result = 3 * t * t
                 /\ o = 2 => pa.call.result = 6 * t

\* the third derivative was asked of a path with the time
\* parameterization t^2
C19_Witness ==
  /\ pa.pc = "done"
  /\ pa.call.op = "derivative"
  /\ pa.cur.tp = <<Poly(0, 0, 1)>>
  /\ pa.call.order = 3
  /\ pa.call.time = 1
  /\ pa.call.err = "invalid_argument"
  /\ pa.call.result = Untouched

\* C20: checkPath raises a projection error if and only if the path has
\* constraints and the initial configuration, with the right-hand side
\* set at paramRange.first, or the end configuration, with the right-hand
\* side set at paramRange.second, does not satisfy them.  The initial
\* configuration is checked first: when both fail the error is the one
\* of the initial configuration.  A path without constraints never
\* raises.
C20_CheckPath ==
  (pa.pc = "done" /\ pa.call.op = "checkPath")
    => LET p == pa.cur
           r1 == IF p.cons = "cp" THEN p.pr[1] ELSE Stale
           r2 == IF p.cons = "cp" THEN p.pr[2] ELSE Stale
           failsI == p.cons # "none" /\ ~pa.call.satI[r1]
           failsE == p.cons # "none" /\ ~pa.call.satE[r2]
       IN /\ pa.call.err # "none" <=> (failsI \/ failsE)
          /\ failsI => pa.call.err = "projection_error: initial"
          /\ (failsE /\ ~failsI) => pa.call.err = "projection_error: end"
          /\ p.cons = "none" => pa.call.err = "none"

\* both end configurations fail once the right-hand side is set, and the
\* error is that of the initial configuration
C20_Witness ==
  /\ pa.pc = "done"
  /\ pa.call.op = "checkPath"
  /\ pa.cur.cons = "cp"
  /\ pa.cur.pr[1] # pa.cur.pr[2]
  /\ pa.call.satI[Stale] /\ ~pa.call.satI[pa.cur.pr[1]]
  /\ pa.call.satE[Stale] /\ ~pa.call.satE[pa.cur.pr[2]]
  /\ pa.call.err = "projection_error: initial"

\* C21: when a boundary velocity of a Hermite path was set through
\* v0(speed) or v1(speed), the next read of hermiteLength() returns the
\* length recomputed for the new boundary data: never -1 (unknown) and
\* never the length of the old boundary data.
C21_LazyLength ==
  (hm.pc = "run" /\ hm.op = "read" /\ hm.mutated)
    => /\ hm.read # Unknown
       /\ hm.read = ControlLength(hm.path.rows)

\* C22: when the end configuration of the path satisfies the constraints
\* and the constraint set has no config projector, or one of dimension 0,
\* project returns success with the input path itself as output: no call
\* of steer, no change of the steering method's constraints, no
\* subdivision.
C22_ZeroDimension ==
  [][(pc = "project" /\ cur.cons \in {"noCP", "dim0"} /\ cur.endSat) =>
       /\ succ' = "T"
       /\ out'[level + 1] = cur
       /\ pc' \in {"applyExit", "done"}
       /\ steers' = steers
       /\ smSet' = smSet
       /\ nBisect' = nBisect
       /\ hist'.recursed = hist.recursed
       /\ stack' = stack
       /\ pj' = pj]_vars

\* apply handed an interpolated path with a config projector of dimension
\* 0 to project, which returned it as it is
C22_Witness ==
  /\ pc = "applyExit"
  /\ entry = "apply"
  /\ level = 0
  /\ input.kind = "Interpolated"
  /\ input.cons = "dim0"
  /\ input.endSat
  /\ succ = "T"
  /\ out[1] = input
  /\ steers = 0
  /\ ~smSet

\* C23: saving a path that carries a time parameterization is refused
\* with a logic error, and a path without one is saved without error;
\* loading restores paramRange from the loaded timeRange.
C23_Serialize ==
  /\ (pa.pc \in {"saved", "done"} /\ pa.call.op = "save")
       => /\ pa.call.err = "logic_error" <=> pa.cur.tp # <<>>
          /\ pa.call.err = "none" <=> pa.cur.tp = <<>>
          /\ pa.pc = "saved" <=> pa.cur.tp = <<>>
  /\ (pa.pc = "done" /\ pa.call.op = "load")
       => /\ pa.call.err = "none"
          /\ pa.cur.tr = pa.prev.tr
          /\ pa.cur.pr = pa.cur.tr

\* the reverse of a path with the time parameterization 1 + 2 t was
\* refused by the saving archive
C23_Witness ==
  /\ pa.pc = "done"
  /\ pa.call.op = "save"
  /\ pa.call.err = "logic_error"
  /\ pa.ops = <<"reverse">>
  /\ pa.orig.tp = <<Poly(1, 2, 0)>>
  /\ pa.cur.tp # <<>>

IsSatisfiedForms ==
  {"isSatisfied(config)", "isSatisfied(config, threshold)",
   "isSatisfied(config, error)"}

\* C24: rightHandSideFromConfig(config) changes the right-hand side of
\* every equality constraint so that config satisfies it exactly, and
\* leaves the right-hand side of every inequality constraint as it was;
\* isSatisfied(config), in any of its forms, leaves every right-hand side
\* as it was.
C24_RightHandSide ==
  /\ (cpv.pc = "run" /\ cpv.call.op = "rightHandSideFromConfig")
       => \A k \in 1..Len(cpv.cons) :
            /\ Len(cpv.before) = Len(cpv.cons)
            /\ cpv.cons[k].kind = cpv.before[k].kind
            /\ cpv.cons[k].f = cpv.before[k].f
            /\ IF cpv.cons[k].kind = "Equality"
                 THEN cpv.cons[k].f[cpv.call.q] - cpv.cons[k].rhs = 0
                 ELSE cpv.cons[k].rhs = cpv.before[k].rhs
  /\ (cpv.pc = "run" /\ cpv.call.op \in IsSatisfiedForms)
       => cpv.cons = cpv.before

\* the right-hand side of an equality constraint was moved to the value at
\* the configuration while an inequality constraint that the configuration
\* violates kept its own
C24_Witness ==
  /\ cpv.pc = "run"
  /\ cpv.call.op = "rightHandSideFromConfig"
  /\ Len(cpv.cons) = 2
  /\ cpv.cons[1].kind = "Equality"
  /\ cpv.cons[1].rhs # cpv.before[1].rhs
  /\ cpv.cons[2].kind = "Inequality"
  /\ cpv.cons[2].f[cpv.call.q] < cpv.cons[2].rhs

\* the path left in part was appended to the output of apply on a path
\* sequence
PartAppended == out'[1].sub = Append(pv.res.sub, out[2])

C26_Bisection ==
  rc.pc = "built" =>
    LET p == rc.path
    IN /\ 2 * rc.t = p.t0 + p.t1
       /\ rc.left.init = p.init /\ rc.left.end = rc.q1
       /\ rc.right.init = rc.q1 /\ rc.right.end = p.end
       /\ rc.left.t0 = p.t0 /\ rc.left.t1 = rc.t
       /\ rc.right.t0 = rc.t /\ rc.right.t1 = p.t1
       /\ GetV0(rc.left) = GetV0(p)
       /\ GetV1(rc.right) = GetV1(p)
       /\ GetV1(rc.left) = GetV0(rc.right)
       /\ rc.left.hl # Unknown /\ rc.right.hl # Unknown

RECURSIVE Pow(_, _)
Pow(b, n) == IF n = 0 THEN 1 ELSE b * Pow(b, n - 1)

\* depths looked at for the least d with beta^d * L < acceptThr
Depths == 0..(2 * MaxLen + 2)

\* the node of the call at depth d (the piece given to recurse by project
\* is at depth 0) is not longer than beta^d * L
Contracted(d) ==
  Pow(10, d) * stack[d + 1].path.hl <= Pow(rh.beta10, d) * stack[1].path.hl

\* beta^d * L < acceptThr, for the piece of length L project called
\* recurse on
Shrunk(d) ==
  BelowThr(Pow(rh.beta10, d) * stack[1].path.hl, Pow(10, d) * cur.eps, rh.M)

DepthBounded ==
  /\ \E d \in Depths : Shrunk(d)
  /\ \A d \in Depths : Shrunk(d) => Len(stack) - 1 <= d

\* C27 as claimed: whatever beta the constructor accepted, every node the
\* recursion is in at depth d has hermiteLength <= beta^d * L, and the
\* depth is bounded by the least d with beta^d * L < acceptThr.
C27_DepthBounded ==
  pc = "recurse" =>
    /\ \A d \in 0..(Len(stack) - 1) : Contracted(d)
    /\ DepthBounded

\* C27 amended: every node the recursion is in at depth d has
\* hermiteLength <= beta^d * L for every accepted beta; for beta < 1 the
\* depth is bounded by the least d with beta^d * L < acceptThr; for
\* beta = 1 there is no such d.
C27_Contraction ==
  pc = "recurse" =>
    /\ \A d \in 0..(Len(stack) - 1) : Contracted(d)
    /\ rh.beta10 < 10 => DepthBounded
    /\ rh.beta10 = 10 => \A d \in Depths : ~Shrunk(d)

C27_Witness ==
  /\ pc = "recurse"
  /\ rh.beta10 < 10
  /\ Len(stack) = 3
  /\ Top.pc = "entry"
  /\ ~Shrunk(1)
  /\ Top.path.hl < stack[1].path.hl

\* C28: in project and recurse, hermiteLength() is only read on a piece
\* whose cached length is valid: the piece project compares with thr,
\* the piece recurse compares with acceptThr, and the piece and its two
\* children in the contraction check, all had computeHermiteLength called
\* after their last v0 or v1; no accepted piece has the length -1.
C28_LengthValid ==
  [][/\ ProjectLoop => pj'.ps[pj.i].hl # Unknown
     /\ RecurseEnter => Top.path.hl # Unknown
     /\ RecurseCheck => /\ Top.path.hl # Unknown
                        /\ Top.left.hl # Unknown
                        /\ Top.right.hl # Unknown
     /\ \A k \in DOMAIN hist'.accepted : hist'.accepted[k].hl # Unknown]_vars

C28_Witness ==
  /\ pc = "recurse"
  /\ Len(stack) = 2
  /\ Top.pc = "check"
  /\ Top.left.hl # Unknown
  /\ Len(hist.accepted) > 0

\* project reaches the loop that builds the candidate pieces of an
\* interpolated path
BuildsInterpolated ==
  /\ Project
  /\ ~NoConstraintSet(cur) /\ ~EndFails(cur) /\ ~NoDimension(cur)
  /\ cur.kind = "Interpolated"

\* C29: when project receives an interpolated path with n interpolation
\* points, every index it reads from interpolationTimes is within the
\* bounds of that vector, whichever constructor built the projector, and
\* it builds exactly n - 1 candidate pieces, piece k joining point k to
\* point k + 1 over (interpolationTimes[k], interpolationTimes[k + 1]).
C29_InterpolationTimes ==
  [][BuildsInterpolated =>
       /\ Len(cur.pts) <= Len(rh.times)
       /\ pc' = "loop"
       /\ Len(pj'.ps) = Len(cur.pts) - 1
       /\ pj'.ps = InterpolatedPieces(cur.pts, rh.times, cur.eps)]_vars

\* recurse returns failure because a child of its piece is longer than
\* stopThr: at "lStop ||" or, after the recursion into the left child, at
\* "stop ||"
ContractionFailed ==
  \/ RecurseCheck /\ ExceedsL(Top)
  \/ RecurseAfterLeft /\ Top.stop

\* the paths appended to proj since recurse was entered on its piece
AppendedSince == SubSeq(pj.r.sub, Top.base + 1, NumberPaths(pj.r))

\* C30 as claimed: when recurse on a piece returns failure because the
\* contraction check failed at that piece, proj holds exactly the paths
\* it held when recurse was entered on that piece.
C30_OutputUntouched ==
  [][ContractionFailed =>
       /\ ret' = "F"
       /\ NumberPaths(pj'.r) = Top.base]_vars

\* C30 amended: when the left child is too long, proj is as it was at the
\* entry; when only the right child is too long, the left child was
\* recursed into first and the pieces accepted there stay in proj: what
\* was appended since the entry lies in the time range of the left child,
\* and nothing of the right child was appended.
C30_LeftSubtreeKept ==
  [][ContractionFailed =>
       /\ ret' = "F"
       /\ pj' = pj
       /\ ExceedsL(Top) => NumberPaths(pj.r) = Top.base
       /\ \A k \in DOMAIN AppendedSince :
            /\ Inside(AppendedSince[k], Top.left)
            /\ AppendedSince[k].hl # Unknown
       /\ ret = "T" => /\ AppendedSince # <<>>
                       /\ AppendedSince[1].t0 = Top.left.t0
                       /\ AppendedSince[Len(AppendedSince)].t1 = Top.left.t1]_vars

C30_Witness ==
  /\ pc = "recurse"
  /\ Top.pc = "left"
  /\ Top.stop
  /\ ~ExceedsL(Top)
  /\ ret = "T"
  /\ NumberPaths(pj.r) > Top.base

====
